---- MODULE Spec2Model ----
(***************************************************************************)
(* Reconciliation and dispatch core of the order-management backend:       *)
(*   - IikoService: cached access token, authenticated requests            *)
(*   - order API: update requests, dispatch of confirmed orders            *)
(*   - sync_products: multi-pass reconciliation of the remote group tree   *)
(*   - flat upserts by external id, mark_missing_products_inactive         *)
(* Null (Python None) is 0 for ids and tokens, -1 for instants.            *)
(***************************************************************************)
EXTENDS Integers, Sequences, FiniteSets, TLC

VARIABLES
    access_token,       \* IikoService._access_token (0 = None)
    token_expires_at,   \* IikoService._token_expires_at (-1 = None)
    now,                \* datetime.utcnow(), in units of ten minutes
    tokensIssued,       \* provider side: tokens handed out so far
    authCalls,          \* provider side: POST /access_token requests received
    task,               \* the coroutines: one record per running request
    nextId,             \* the next fresh primary key (uuid4)
    organizations,      \* table organizations: id -> row
    terminal_groups,    \* table terminal_groups: id -> row
    sections,           \* table sections: id -> row
    products,           \* table products: id -> row
    groups,             \* table groups: id -> row
    orders,             \* table orders (with its items): id -> row
    dispatchCount,      \* per order: calls of send_order_to_iiko made for it
    remoteOrders,       \* provider side: remote order id -> local order it was created for
    lastCall,           \* the latest store operation called: its arguments and result
    calls,              \* number of store operations called so far
    sync,               \* the POST /products/sync request: its position, inputs and outcome
    syncs               \* number of POST /products/sync requests received so far

authVars == <<access_token, token_expires_at, now, tokensIssued, authCalls>>
catalogVars == <<organizations, terminal_groups, sections, products, groups>>
orderVars == <<orders, dispatchCount, remoteOrders>>
callVars == <<lastCall, calls>>
syncVars == <<sync, syncs>>

vars == <<access_token, token_expires_at, now, tokensIssued, authCalls, task,
          nextId, organizations, terminal_groups, sections, products, groups,
          orders, dispatchCount, remoteOrders, lastCall, calls, sync, syncs>>

(***************************************************************************)
(* Bounds of the model                                                     *)
(***************************************************************************)
NumTasks == 2
MaxNow == 6
MaxAuthCalls == 3
MaxOrders == 1
MaxDispatches == 2
MaxId == 8
MaxCalls == 3
MaxSyncs == 1

Tasks == 1..NumTasks

NoToken == 0
NoTime == -1
NoId == 0

EmptyTable == [id \in {} |-> 0]

\* lastCall before any store operation has been called
NoCall == [op |-> "none", data |-> [iiko_id |-> NoId], org |-> NoId, ids |-> {},
           ret |-> 0, repeated |-> FALSE]

(***************************************************************************)
(* IikoService: the cached credential                                      *)
(***************************************************************************)
\* timedelta(minutes=50), in units of ten minutes
TokenTTL == 5

NoPayload == [organizationId |-> 0, terminalGroupId |-> 0, items |-> <<>>]

\* loaded_status: Order.status as the request's session holds it (identity map)
\* response: what the provider answered to the request ("none" before it did)
\* dispatch: how send_order_to_iiko ended ("none" while it has not), and
\* iiko_order_id: the value it returned (0 = None)
\* returned: the value a listing operation returned ("none" while it has not)
IdleTask == [pc |-> "idle", kind |-> "none", token |-> NoToken,
             order |-> 0, loaded_status |-> "unset", payload |-> NoPayload,
             result |-> "none", response |-> "none", dispatch |-> "none",
             iiko_order_id |-> NoId, returned |-> "none"]

\* sync_products before it is called: its locals and its response
IdleSync == [pc |-> "idle", organization_ids |-> <<>>, resto_groups |-> <<>>,
             resto_products |-> <<>>, written |-> EmptyTable, iteration |-> 0,
             remaining |-> <<>>, synced_groups |-> 0, synced_products |-> 0,
             idle_passes |-> 0, status |-> 0]

\* The cache test without the comparison of line 35
CacheValidIgnoringExpiry ==
    /\ access_token # NoToken
    /\ token_expires_at # NoTime

\* _get_access_token, lines 34-36: the cached token is returned while valid
CacheValid ==
    /\ access_token # NoToken
    /\ token_expires_at # NoTime
    /\ now < token_expires_at

\* _make_request up to its first suspension point, for task t: either the cached
\* token is used and the request itself is sent, or POST /access_token is sent.
EnterMakeRequest(t, rec) ==
    IF CacheValid
    THEN /\ task' = [task EXCEPT ![t] = [rec EXCEPT !.pc = "request_wait",
                                                    !.token = access_token]]
         /\ UNCHANGED authVars
    ELSE /\ authCalls < MaxAuthCalls
         /\ task' = [task EXCEPT ![t] = [rec EXCEPT !.pc = "auth_wait"]]
         /\ authCalls' = authCalls + 1
         /\ UNCHANGED <<access_token, token_expires_at, now, tokensIssued>>

\* Raised, were the exception to escape the request handler
RaisedUncaught(rec) ==
    [rec EXCEPT !.pc = "done", !.result = "error",
                !.dispatch = IF rec.kind = "patch" THEN "raised" ELSE @]

\* What a raised IikoAPIError becomes for the request that task t serves: the
\* order API catches it in _send_order_to_iiko, any other caller sees it.
Raised(rec) ==
    [rec EXCEPT !.pc = "done",
                !.result = IF rec.kind = "patch" THEN "ok" ELSE "error",
                !.dispatch = IF rec.kind = "patch" THEN "raised" ELSE @]

\* A request of a caller other than the order API (get_organizations, ...):
\* _make_request is entered.
CallBegin(t) ==
    /\ task[t].pc = "idle"
    /\ EnterMakeRequest(t, [IdleTask EXCEPT !.kind = "fetch"])
    /\ UNCHANGED <<syncVars, nextId, catalogVars, orderVars, callVars>>

\* _get_access_token, lines 44-62: the provider answers 200 with a token. The
\* token and its expiry are cached and _make_request goes on to send the
\* request with that token.
AuthOk(t) ==
    /\ task[t].pc = "auth_wait"
    /\ tokensIssued' = tokensIssued + 1
    /\ access_token' = tokensIssued + 1
    /\ token_expires_at' = now + TokenTTL
    /\ task' = [task EXCEPT ![t] = [@ EXCEPT !.pc = "request_wait",
                                             !.token = tokensIssued + 1]]
    /\ UNCHANGED <<syncVars, now, authCalls, nextId, catalogVars, orderVars, callVars>>

\* _get_access_token, lines 52-56: status 200 but no "token" in the body; the
\* assignment of line 53 has already stored None.
AuthNoToken(t) ==
    /\ task[t].pc = "auth_wait"
    /\ access_token' = NoToken
    /\ task' = [task EXCEPT ![t] = Raised(@)]
    /\ UNCHANGED <<syncVars, token_expires_at, now, tokensIssued, authCalls,
                   nextId, catalogVars, orderVars, callVars>>

\* _get_access_token, lines 46-50 and 64-66: a status other than 200, or a
\* transport error (timeout included).
AuthFail(t) ==
    /\ task[t].pc = "auth_wait"
    /\ task' = [task EXCEPT ![t] = Raised(@)]
    /\ UNCHANGED <<syncVars, authVars, nextId, catalogVars, orderVars, callVars>>

\* What the named array field of a 200/201 body can be: a list with elements,
\* an empty list, not there at all, JSON null, or a JSON object.
ResponseBodies == {"items", "empty_list", "absent", "null", "object"}

\* get_organizations line 133 (get_terminal_groups 176, get_available_
\* restaurant_sections 205): data.get(field, []), the default standing in for
\* a field that is not there.
Extracted(body) == IF body = "absent" THEN "empty_list" ELSE body

\* line 134 (177, 206): len() of the extracted value, which raises TypeError
\* for None.
LenRaises(value) == value = "null"

\* _make_request, lines 105-112, and the listing operation that called it,
\* lines 133-135: the provider answers 200/201 and the field is unwrapped.
RequestOk(t) ==
    /\ task[t].pc = "request_wait"
    /\ task[t].kind = "fetch"
    /\ \E body \in ResponseBodies :
          task' = [task EXCEPT ![t] =
                      IF LenRaises(Extracted(body))
                      THEN [Raised(@) EXCEPT !.response = body]
                      ELSE [@ EXCEPT !.pc = "done", !.result = "ok",
                                     !.response = body,
                                     !.returned = Extracted(body)]]
    /\ UNCHANGED <<syncVars, authVars, nextId, catalogVars, orderVars, callVars>>

\* _make_request, lines 105-109 and 114-116: another status, or a transport error.
RequestFail(t) ==
    /\ task[t].pc = "request_wait"
    /\ task[t].kind = "fetch"
    /\ task' = [task EXCEPT ![t] = Raised(@)]
    /\ UNCHANGED <<syncVars, authVars, nextId, catalogVars, orderVars, callVars>>

\* The response has been returned; the slot serves the next request.
TaskReset(t) ==
    /\ task[t].pc = "done"
    /\ task' = [task EXCEPT ![t] = IdleTask]
    /\ UNCHANGED <<syncVars, authVars, nextId, catalogVars, orderVars, callVars>>

\* Time passes.
Tick ==
    /\ now < MaxNow
    /\ now' = now + 1
    /\ UNCHANGED <<syncVars, access_token, token_expires_at, tokensIssued, authCalls, task,
                   nextId, catalogVars, orderVars, callVars>>

\* IikoService.__init__ and an empty store
InitService ==
    /\ access_token = NoToken
    /\ token_expires_at = NoTime
    /\ now = 0
    /\ tokensIssued = 0
    /\ authCalls = 0
    /\ task = [t \in Tasks |-> IdleTask]
    /\ sync = IdleSync
    /\ syncs = 0

InitEmptyStore ==
    /\ nextId = 1
    /\ organizations = EmptyTable
    /\ terminal_groups = EmptyTable
    /\ sections = EmptyTable
    /\ products = EmptyTable
    /\ groups = EmptyTable
    /\ orders = EmptyTable
    /\ dispatchCount = EmptyTable
    /\ remoteOrders = <<>>
    /\ lastCall = NoCall
    /\ calls = 0

InitAuth == InitService /\ InitEmptyStore

NextAuth ==
    \/ \E t \in Tasks : CallBegin(t)
    \/ \E t \in Tasks : AuthOk(t)
    \/ \E t \in Tasks : AuthNoToken(t)
    \/ \E t \in Tasks : AuthFail(t)
    \/ \E t \in Tasks : RequestOk(t)
    \/ \E t \in Tasks : RequestFail(t)
    \/ \E t \in Tasks : TaskReset(t)
    \/ Tick

\* Concurrent callers of the POS client, with time passing
SpecAuth == InitAuth /\ [][NextAuth]_vars

(***************************************************************************)
(* C1: when several callers find the credential missing or expired at the  *)
(* same time, a single POST /access_token is in flight: no two callers are *)
(* waiting for an answer of the access_token endpoint at once.             *)
(***************************************************************************)
AuthInFlight == {t \in Tasks : task[t].pc = "auth_wait"}

C1_SingleFlightRefresh == Cardinality(AuthInFlight) <= 1

(***************************************************************************)
(* Orders: crud/order.py, api/v1/orders.py, IikoService.send_order_to_iiko *)
(***************************************************************************)
\* models/order.py OrderStatus
OrderStatus == {"pending", "confirmed", "declined"}

\* OrderUpdate.status: a member of the enumeration, or not set in the body
StatusUpdates == OrderStatus \cup {"unset"}

\* crud update_order, lines 155-157: the fields set in the body are assigned
ApplyUpdate(row, s) ==
    IF s = "unset" THEN row ELSE [row EXCEPT !.status = s]

\* update_order_iiko_id writing the status whatever the session has loaded
ApplyIikoIdWritingStatus(row, loaded_status, iiko_order_id) ==
    [row EXCEPT !.iiko_order_id = iiko_order_id, !.status = "confirmed"]

\* crud update_order_iiko_id, lines 167-175. get_order returns the object the
\* session already holds, with the status it loaded in update_order's refresh;
\* the flush writes the columns whose assigned value differs from the loaded
\* one, so assigning confirmed over a loaded confirmed writes no status.
ApplyIikoId(row, loaded_status, iiko_order_id) ==
    [row EXCEPT !.iiko_order_id = iiko_order_id,
                !.status = IF loaded_status = "confirmed" THEN @ ELSE "confirmed"]

\* ResolvedItems keeping the items whose product has no iiko_id
ResolvedItemsOfAnyProduct(items) ==
    LET ok(it) == it.product_id \in DOMAIN products
        kept == SelectSeq(items, ok)
    IN  [i \in 1..Len(kept) |->
            [productId |-> products[kept[i].product_id].iiko_id,
             amount |-> kept[i].quantity]]

\* send_order_to_iiko, lines 264-284: the items whose product exists and has
\* an iiko_id, as provider items
ResolvedItems(items) ==
    LET ok(it) == /\ it.product_id \in DOMAIN products
                  /\ products[it.product_id].iiko_id # NoId
        kept == SelectSeq(items, ok)
    IN  [i \in 1..Len(kept) |->
            [productId |-> products[kept[i].product_id].iiko_id,
             amount |-> kept[i].quantity]]

\* DispatchPayloads without the is_active filter of line 257
DispatchPayloadsAnyTerminalGroup(row) ==
    IF \/ row.organization_id \notin DOMAIN organizations
       \/ organizations[row.organization_id].iiko_id = NoId
    THEN {NoPayload}
    ELSE LET active == {g \in DOMAIN terminal_groups :
                           terminal_groups[g].organization_id = row.organization_id}
             items == ResolvedItems(row.items)
         IN  IF active = {} THEN {NoPayload}
             ELSE {IF terminal_groups[g].iiko_id = NoId \/ items = <<>>
                   THEN NoPayload
                   ELSE [organizationId |-> organizations[row.organization_id].iiko_id,
                         terminalGroupId |-> terminal_groups[g].iiko_id,
                         items |-> items] : g \in active}

\* DispatchPayloads without the iiko_id test of line 250
DispatchPayloadsAnyOrganization(row) ==
    IF row.organization_id \notin DOMAIN organizations
    THEN {NoPayload}
    ELSE LET active == {g \in DOMAIN terminal_groups :
                           /\ terminal_groups[g].organization_id = row.organization_id
                           /\ terminal_groups[g].is_active}
             items == ResolvedItems(row.items)
         IN  IF active = {} THEN {NoPayload}
             ELSE {IF terminal_groups[g].iiko_id = NoId \/ items = <<>>
                   THEN NoPayload
                   ELSE [organizationId |-> organizations[row.organization_id].iiko_id,
                         terminalGroupId |-> terminal_groups[g].iiko_id,
                         items |-> items] : g \in active}

\* DispatchPayloads without the test of lines 286-288
DispatchPayloadsEmptyItems(row) ==
    IF \/ row.organization_id \notin DOMAIN organizations
       \/ organizations[row.organization_id].iiko_id = NoId
    THEN {NoPayload}
    ELSE LET active == {g \in DOMAIN terminal_groups :
                           /\ terminal_groups[g].organization_id = row.organization_id
                           /\ terminal_groups[g].is_active}
             items == ResolvedItems(row.items)
         IN  IF active = {} THEN {NoPayload}
             ELSE {IF terminal_groups[g].iiko_id = NoId
                   THEN NoPayload
                   ELSE [organizationId |-> organizations[row.organization_id].iiko_id,
                         terminalGroupId |-> terminal_groups[g].iiko_id,
                         items |-> items] : g \in active}

\* send_order_to_iiko, lines 245-306: the payloads the call may build for the
\* order row, NoPayload standing for "return None". The terminal group is
\* whichever active one of the organization the query returns first.
DispatchPayloads(row) ==
    IF \/ row.organization_id \notin DOMAIN organizations
       \/ organizations[row.organization_id].iiko_id = NoId
    THEN {NoPayload}
    ELSE LET active == {g \in DOMAIN terminal_groups :
                           /\ terminal_groups[g].organization_id = row.organization_id
                           /\ terminal_groups[g].is_active}
             items == ResolvedItems(row.items)
         IN  IF active = {} THEN {NoPayload}
             ELSE {IF terminal_groups[g].iiko_id = NoId \/ items = <<>>
                   THEN NoPayload
                   ELSE [organizationId |-> organizations[row.organization_id].iiko_id,
                         terminalGroupId |-> terminal_groups[g].iiko_id,
                         items |-> items] : g \in active}

\* PUT/PATCH /orders/{order_id} up to its first suspension point: the update
\* is committed, and a body with status=confirmed goes on to dispatch.
OrderUpdateHandler(t, o, s) ==
    /\ task[t].pc = "idle"
    /\ UNCHANGED <<syncVars, nextId, catalogVars, remoteOrders, callVars>>
    /\ IF o \notin DOMAIN orders
       THEN /\ task' = [task EXCEPT ![t] =
                           [IdleTask EXCEPT !.kind = "patch", !.pc = "done",
                                            !.result = "not_found"]]
            /\ UNCHANGED <<authVars, orders, dispatchCount>>
       ELSE /\ orders' = [orders EXCEPT ![o] = ApplyUpdate(@, s)]
            /\ IF s # "confirmed"
               THEN /\ task' = [task EXCEPT ![t] =
                                   [IdleTask EXCEPT !.kind = "patch", !.pc = "done",
                                                    !.order = o, !.result = "ok"]]
                    /\ UNCHANGED <<authVars, dispatchCount>>
               ELSE /\ dispatchCount[o] < MaxDispatches
                    /\ dispatchCount' = [dispatchCount EXCEPT ![o] = @ + 1]
                    /\ \E p \in DispatchPayloads(orders'[o]) :
                          IF p = NoPayload
                          THEN /\ task' = [task EXCEPT ![t] =
                                   [IdleTask EXCEPT !.kind = "patch", !.pc = "done",
                                                    !.order = o, !.result = "ok",
                                                    !.dispatch = "returned"]]
                               /\ UNCHANGED authVars
                          ELSE EnterMakeRequest(t,
                                   [IdleTask EXCEPT !.kind = "patch", !.order = o,
                                                    !.loaded_status = orders'[o].status,
                                                    !.payload = p])

\* api/v1/orders.py update_order (PUT)
put_order(t, o, s) == OrderUpdateHandler(t, o, s)

\* api/v1/orders.py patch_order (PATCH)
patch_order(t, o, s) == OrderUpdateHandler(t, o, s)

\* The failure of the create-order call, with an id recorded all the same
CreateOrderFailRecordingId(t) ==
    /\ task[t].pc = "request_wait"
    /\ task[t].kind = "patch"
    /\ orders' = [orders EXCEPT ![task[t].order] =
                     ApplyIikoId(@, task[t].loaded_status, Len(remoteOrders) + 1)]
    /\ task' = [task EXCEPT ![t] = [Raised(@) EXCEPT !.response = "failed"]]
    /\ UNCHANGED <<syncVars, authVars, nextId, catalogVars, dispatchCount, remoteOrders,
                   callVars>>

\* send_order_to_iiko lines 310-318 and _send_order_to_iiko lines 170-176: the
\* provider created the order and returned its id, which is recorded.
CreateOrderOk(t) ==
    /\ task[t].pc = "request_wait"
    /\ task[t].kind = "patch"
    /\ remoteOrders' = Append(remoteOrders, task[t].order)
    /\ orders' = [o \in DOMAIN orders |->
                    IF o = task[t].order
                    THEN ApplyIikoId(orders[o], task[t].loaded_status,
                                     Len(remoteOrders) + 1)
                    ELSE orders[o]]
    /\ task' = [task EXCEPT ![t] = [@ EXCEPT !.pc = "done", !.result = "ok",
                                             !.response = "created",
                                             !.dispatch = "returned",
                                             !.iiko_order_id = Len(remoteOrders) + 1]]
    /\ UNCHANGED <<syncVars, authVars, nextId, catalogVars, dispatchCount, callVars>>

\* The 200/201 answers to /api/1/order/create that carry no order id and
\* that response.get("orderInfo", {}).get("id") reads as None: no orderInfo,
\* an orderInfo without id, an orderInfo whose id is null
NoIdResponses == {"no_orderInfo", "no_id", "null_id"}

\* CreateOrderNoId, were a missing id raised as an error
CreateOrderNoIdRaising(t) ==
    /\ task[t].pc = "request_wait"
    /\ task[t].kind = "patch"
    /\ \E response \in NoIdResponses :
          task' = [task EXCEPT ![t] = [Raised(@) EXCEPT !.response = response]]
    /\ UNCHANGED <<syncVars, authVars, nextId, catalogVars, orderVars, callVars>>

\* send_order_to_iiko lines 312-318 and _send_order_to_iiko lines 177-178: a
\* 200/201 answer without orderInfo.id
CreateOrderNoId(t) ==
    /\ task[t].pc = "request_wait"
    /\ task[t].kind = "patch"
    /\ \E response \in NoIdResponses :
          task' = [task EXCEPT ![t] = [@ EXCEPT !.pc = "done", !.result = "ok",
                                               !.response = response,
                                               !.dispatch = "returned"]]
    /\ UNCHANGED <<syncVars, authVars, nextId, catalogVars, orderVars, callVars>>

\* send_order_to_iiko line 312 and _send_order_to_iiko lines 179-180: a 200/201
\* answer whose orderInfo is null; .get on None raises AttributeError, which
\* the order API catches
CreateOrderNullInfo(t) ==
    /\ task[t].pc = "request_wait"
    /\ task[t].kind = "patch"
    /\ task' = [task EXCEPT ![t] = [Raised(@) EXCEPT !.response = "null_orderInfo"]]
    /\ UNCHANGED <<syncVars, authVars, nextId, catalogVars, orderVars, callVars>>

\* _make_request lines 105-109, 114-116 and _send_order_to_iiko lines 179-180:
\* another status or a transport error, caught at the order level
CreateOrderFail(t) ==
    /\ task[t].pc = "request_wait"
    /\ task[t].kind = "patch"
    /\ task' = [task EXCEPT ![t] = [Raised(@) EXCEPT !.response = "failed"]]
    /\ UNCHANGED <<syncVars, authVars, nextId, catalogVars, orderVars, callVars>>

\* POST /orders: crud create_order, a pending order without an external id
create_order(org, items) ==
    /\ nextId <= MaxId
    /\ org \in DOMAIN organizations
    /\ Cardinality(DOMAIN orders) < MaxOrders
    /\ orders' = (nextId :> [status |-> "pending", iiko_order_id |-> NoId,
                             organization_id |-> org, items |-> items]) @@ orders
    /\ dispatchCount' = (nextId :> 0) @@ dispatchCount
    /\ nextId' = nextId + 1
    /\ UNCHANGED <<syncVars, authVars, task, catalogVars, remoteOrders, callVars>>

\* The store the order scenarios start from: one organization with a
\* terminal group, a product known to the provider and one that is not.
InitOrderStore ==
    /\ organizations = (1 :> [iiko_id |-> 1, name |-> "n1", is_active |-> TRUE])
    /\ terminal_groups = (2 :> [iiko_id |-> 1, name |-> "n1", organization_id |-> 1,
                                is_active |-> TRUE])
    /\ products = (3 :> [iiko_id |-> 1, name |-> "n1", images |-> <<>>,
                         group_id |-> NoId, organization_id |-> 1, is_active |-> TRUE])
                  @@ (4 :> [iiko_id |-> NoId, name |-> "n2", images |-> <<>>,
                         group_id |-> NoId, organization_id |-> 1, is_active |-> TRUE])
    /\ sections = EmptyTable
    /\ groups = EmptyTable
    /\ nextId = 5
    /\ orders = EmptyTable
    /\ dispatchCount = EmptyTable
    /\ remoteOrders = <<>>
    /\ lastCall = NoCall
    /\ calls = 0

ItemLists == {<<[product_id |-> 3, quantity |-> 1]>>,
              <<[product_id |-> 4, quantity |-> 1]>>,
              <<[product_id |-> 3, quantity |-> 2], [product_id |-> 4, quantity |-> 1]>>}

InitOrders == InitService /\ InitOrderStore

NextOrders ==
    \/ \E items \in ItemLists : create_order(1, items)
    \/ \E t \in Tasks, o \in DOMAIN orders \cup {NoId}, s \in StatusUpdates : put_order(t, o, s)
    \/ \E t \in Tasks, o \in DOMAIN orders \cup {NoId}, s \in StatusUpdates : patch_order(t, o, s)
    \/ \E t \in Tasks : AuthOk(t)
    \/ \E t \in Tasks : AuthNoToken(t)
    \/ \E t \in Tasks : AuthFail(t)
    \/ \E t \in Tasks : CreateOrderOk(t)
    \/ \E t \in Tasks : CreateOrderNoId(t)
    \/ \E t \in Tasks : CreateOrderNullInfo(t)
    \/ \E t \in Tasks : CreateOrderFail(t)
    \/ \E t \in Tasks : TaskReset(t)

\* Concurrent update requests on the orders of one organization
SpecOrders == InitOrders /\ [][NextOrders]_vars

(***************************************************************************)
(* C2: the order API dispatches an order at most once, whatever the        *)
(* sequence of update requests: send_order_to_iiko is called at most once  *)
(* per order and at most one remote order exists for it.                   *)
(***************************************************************************)
RemoteOrdersOf(o) == {i \in 1..Len(remoteOrders) : remoteOrders[i] = o}

C2_DispatchAtMostOnce ==
    \A o \in DOMAIN orders :
        /\ dispatchCount[o] <= 1
        /\ Cardinality(RemoteOrdersOf(o)) <= 1

(***************************************************************************)
(* C3: a dispatch that fails (authentication, transport, provider status)  *)
(* or yields no id is absorbed: the update request completes normally and  *)
(* the step leaves every order as stored, so a confirmed order without     *)
(* external id stays so; a dispatch that returns None before any provider  *)
(* call leaves the order confirmed with its external id as it was.         *)
(***************************************************************************)
DispatchEndsWithoutId(t) ==
    /\ task[t].kind = "patch"
    /\ task[t].pc \in {"auth_wait", "request_wait"}
    /\ task'[t].pc = "done"
    /\ remoteOrders' = remoteOrders

DispatchReturnsNoneAtOnce(t) ==
    /\ task[t].pc = "idle"
    /\ task'[t].pc = "done"
    /\ dispatchCount' # dispatchCount

C3_FailedDispatchKeepsConfirmation ==
    [][\A t \in Tasks :
        /\ DispatchEndsWithoutId(t) =>
              /\ task'[t].result = "ok"
              /\ orders' = orders
        /\ DispatchReturnsNoneAtOnce(t) =>
              /\ task'[t].result = "ok"
              /\ orders'[task'[t].order].status = "confirmed"
              /\ orders'[task'[t].order].iiko_order_id =
                     orders[task'[t].order].iiko_order_id]_vars

\* A request whose dispatch reached the provider and failed has completed; its
\* order is confirmed and has no external id.
C3_Witness ==
    \E t \in Tasks :
        /\ task[t].pc = "done"
        /\ task[t].kind = "patch"
        /\ task[t].payload # NoPayload
        /\ task[t].result = "ok"
        /\ remoteOrders = <<>>
        /\ orders[task[t].order].status = "confirmed"
        /\ orders[task[t].order].iiko_order_id = NoId

(***************************************************************************)
(* C4: a terminal status is final: once an order is declined, no step      *)
(* gives it another status.                                                *)
(***************************************************************************)
TerminalStatuses == {"declined"}

C4_TerminalStatusIsFinal ==
    [][\A o \in DOMAIN orders :
          orders[o].status \in TerminalStatuses => orders'[o].status = orders[o].status]_vars


(***************************************************************************)
(* C24: at most one dispatch of an order is in flight at any moment: no    *)
(* two requests are between their call of send_order_to_iiko and its       *)
(* return for the same order.                                              *)
(***************************************************************************)
DispatchInFlight(o) ==
    {t \in Tasks : /\ task[t].kind = "patch"
                   /\ task[t].order = o
                   /\ task[t].pc \in {"auth_wait", "request_wait"}}

C24_OneDispatchInFlightPerOrder ==
    \A o \in DOMAIN orders : Cardinality(DispatchInFlight(o)) <= 1

(***************************************************************************)
(* C29: an order that has an external id has the id of a remote order that *)
(* the provider created for it; an order that was never dispatched has     *)
(* none.                                                                   *)
(***************************************************************************)
C29_ExternalIdComesFromTheProvider ==
    \A o \in DOMAIN orders :
        /\ orders[o].iiko_order_id # NoId => orders[o].iiko_order_id \in RemoteOrdersOf(o)
        /\ dispatchCount[o] = 0 => orders[o].iiko_order_id = NoId

\* An order has the id the provider returned, and another request for it has
\* ended after a dispatch that failed or returned no id.
C29_Witness ==
    \E o \in DOMAIN orders, t \in Tasks :
        /\ orders[o].iiko_order_id # NoId
        /\ orders[o].iiko_order_id \in RemoteOrdersOf(o)
        /\ task[t].pc = "done"
        /\ task[t].order = o
        /\ task[t].response \in NoIdResponses \cup {"failed", "null_orderInfo"}

(***************************************************************************)
(* C30: recording the id of a successful dispatch leaves the status of the *)
(* order as it is at that moment (declined, if another request declined it *)
(* while the dispatch was awaiting the provider) and changes no other      *)
(* order.                                                                  *)
(***************************************************************************)
C30_RecordingTheIdKeepsTheStatus ==
    [][\A t \in Tasks :
          (task[t].pc = "request_wait" /\ task'[t].response = "created") =>
              /\ orders'[task[t].order].status = orders[task[t].order].status
              /\ orders'[task[t].order].iiko_order_id = task'[t].iiko_order_id
              /\ \A o \in DOMAIN orders \ {task[t].order} : orders'[o] = orders[o]]_vars

\* The dispatch of an order has succeeded and its id is recorded, another
\* request has declined the order, and the order is declined.
C30_Witness ==
    \E t, u \in Tasks :
        /\ t # u
        /\ task[t].pc = "done"
        /\ task[t].response = "created"
        /\ task[u].pc = "done"
        /\ task[u].order = task[t].order
        /\ task[u].dispatch = "none"
        /\ orders[task[t].order].status = "declined"
        /\ orders[task[t].order].iiko_order_id = task[t].iiko_order_id

(***************************************************************************)
(* Dispatch over the stores an order can meet: the organization with or    *)
(* without an external id, its terminal groups active or not, products     *)
(* deleted after the order was placed                                      *)
(***************************************************************************)
\* crud/product.py delete_product: the row is deleted; order_items.product_id
\* carries no foreign key, so the items of placed orders keep the id
delete_product(product_id) ==
    /\ product_id \in DOMAIN products
    /\ \A t \in Tasks : task[t].pc \in {"idle", "done"}
    /\ products' = [id \in DOMAIN products \ {product_id} |-> products[id]]
    /\ UNCHANGED <<syncVars, authVars, task, nextId, organizations, terminal_groups,
                   sections, groups, orderVars, callVars>>

TerminalGroupRow(iiko_id, is_active) ==
    [iiko_id |-> iiko_id, name |-> "n1", organization_id |-> 1, is_active |-> is_active]

\* The terminal groups of organization 1: none, an active one, an inactive
\* one, an active one without external id, an inactive and an active one
DispatchTerminalGroups ==
    {EmptyTable,
     2 :> TerminalGroupRow(1, TRUE),
     2 :> TerminalGroupRow(1, FALSE),
     2 :> TerminalGroupRow(NoId, TRUE),
     (2 :> TerminalGroupRow(1, FALSE)) @@ (6 :> TerminalGroupRow(2, TRUE))}

\* The items of the placed order: none, one of a product without external
\* id, one of a product that has one, three items, two items
DispatchItemLists ==
    {<<>>,
     <<[product_id |-> 4, quantity |-> 1]>>,
     <<[product_id |-> 5, quantity |-> 1]>>,
     <<[product_id |-> 3, quantity |-> 2], [product_id |-> 5, quantity |-> 1],
       [product_id |-> 3, quantity |-> 1]>>,
     <<[product_id |-> 3, quantity |-> 1], [product_id |-> 4, quantity |-> 1]>>}

\* One organization, its terminal groups, three products (4 has no external
\* id) and one pending order
InitDispatchStore ==
    /\ \E iiko_id \in {NoId, 1} :
          organizations = (1 :> [iiko_id |-> iiko_id, name |-> "n1", is_active |-> TRUE])
    /\ terminal_groups \in DispatchTerminalGroups
    /\ products = [id \in {3, 4, 5} |->
                      [iiko_id |-> IF id = 3 THEN 1 ELSE IF id = 4 THEN NoId ELSE 2,
                       name |-> "n1", images |-> <<>>, group_id |-> NoId,
                       organization_id |-> 1, is_active |-> TRUE]]
    /\ \E items \in DispatchItemLists :
          orders = (7 :> [status |-> "pending", iiko_order_id |-> NoId,
                          organization_id |-> 1, items |-> items])
    /\ dispatchCount = (7 :> 0)
    /\ sections = EmptyTable
    /\ groups = EmptyTable
    /\ nextId = 8
    /\ remoteOrders = <<>>
    /\ lastCall = NoCall
    /\ calls = 0

InitDispatch == InitService /\ InitDispatchStore

\* The update requests of one client, one at a time, and product deletions
NextDispatch ==
    \/ \E product_id \in DOMAIN products : delete_product(product_id)
    \/ \E o \in DOMAIN orders, s \in StatusUpdates : put_order(1, o, s)
    \/ \E o \in DOMAIN orders, s \in StatusUpdates : patch_order(1, o, s)
    \/ AuthOk(1)
    \/ AuthNoToken(1)
    \/ AuthFail(1)
    \/ CreateOrderOk(1)
    \/ CreateOrderNoId(1)
    \/ CreateOrderNullInfo(1)
    \/ CreateOrderFail(1)
    \/ TaskReset(1)

SpecDispatch == InitDispatch /\ [][NextDispatch]_vars

(***************************************************************************)
(* C11: the payload that dispatch passes to the provider has exactly one   *)
(* item per order item whose product exists with an external id, carrying  *)
(* that external id and the item's quantity; dispatch goes on to the       *)
(* provider whenever such an item exists (the organization and its active  *)
(* terminal groups having external ids); and when the provider creates the *)
(* order, dispatch returns the provider's order id, which is not null.     *)
(***************************************************************************)
\* send_order_to_iiko is called for order o in this step
DispatchCalled(t, o) ==
    /\ task[t].pc = "idle"
    /\ task'[t].pc # "idle"
    /\ task'[t].order = o
    /\ o \in DOMAIN orders
    /\ dispatchCount'[o] # dispatchCount[o]

\* The positions of the order's items whose product exists with an external id
SurvivingItems(o) ==
    {i \in DOMAIN orders[o].items :
        /\ orders[o].items[i].product_id \in DOMAIN products
        /\ products[orders[o].items[i].product_id].iiko_id # NoId}

\* The payload items are the surviving order items, one for one
OneItemPerSurvivor(sent, o) ==
    \E f \in [DOMAIN sent -> SurvivingItems(o)] :
        /\ \A i, j \in DOMAIN sent : i # j => f[i] # f[j]
        /\ \A k \in SurvivingItems(o) : \E i \in DOMAIN sent : f[i] = k
        /\ \A i \in DOMAIN sent :
              /\ sent[i].productId = products[orders[o].items[f[i]].product_id].iiko_id
              /\ sent[i].amount = orders[o].items[f[i]].quantity

ActiveTerminalGroups(organization_id) ==
    {g \in DOMAIN terminal_groups :
        /\ terminal_groups[g].organization_id = organization_id
        /\ terminal_groups[g].is_active}

Dispatchable(o) ==
    /\ orders[o].organization_id \in DOMAIN organizations
    /\ organizations[orders[o].organization_id].iiko_id # NoId
    /\ ActiveTerminalGroups(orders[o].organization_id) # {}
    /\ \A g \in ActiveTerminalGroups(orders[o].organization_id) :
          terminal_groups[g].iiko_id # NoId

C11_DispatchSendsSurvivingItems ==
    [][\A t \in Tasks :
        /\ \A o \in DOMAIN orders :
              DispatchCalled(t, o) =>
                  /\ task'[t].payload # NoPayload =>
                        OneItemPerSurvivor(task'[t].payload.items, o)
                  /\ (Dispatchable(o) /\ SurvivingItems(o) # {}) =>
                        task'[t].payload # NoPayload
        /\ (task[t].pc = "request_wait" /\ task'[t].response = "created") =>
              /\ task'[t].dispatch = "returned"
              /\ task'[t].iiko_order_id # NoId
              /\ task'[t].iiko_order_id \in RemoteOrdersOf(task[t].order)']_vars

\* An order of three items, the product of one of them deleted, was sent with
\* two items and the provider's id came back.
C11_Witness ==
    \E t \in Tasks :
        /\ task[t].pc = "done"
        /\ task[t].response = "created"
        /\ task[t].iiko_order_id # NoId
        /\ Len(orders[task[t].order].items) = 3
        /\ Len(task[t].payload.items) = 2
        /\ \E i \in 1..3 : orders[task[t].order].items[i].product_id \notin DOMAIN products

(***************************************************************************)
(* C12: dispatch of an order whose organization has no active terminal     *)
(* group returns None at once: it does not raise, builds no payload and    *)
(* sends no request to the provider.                                       *)
(***************************************************************************)
ReturnsNoneAtOnce(t) ==
    /\ task'[t].pc = "done"
    /\ task'[t].dispatch = "returned"
    /\ task'[t].iiko_order_id = NoId
    /\ task'[t].payload = NoPayload
    /\ task'[t].response = "none"
    /\ UNCHANGED <<authVars, remoteOrders>>

C12_NoActiveTerminalGroupReturnsNone ==
    [][\A t \in Tasks, o \in DOMAIN orders :
          (DispatchCalled(t, o) /\ ActiveTerminalGroups(orders[o].organization_id) = {})
              => ReturnsNoneAtOnce(t)]_vars

\* Dispatch has returned None for an order whose organization has an external
\* id and a terminal group, which is inactive; an item of the order would do.
C12_Witness ==
    \E t \in Tasks :
        /\ task[t].pc = "done"
        /\ task[t].dispatch = "returned"
        /\ task[t].payload = NoPayload
        /\ organizations[orders[task[t].order].organization_id].iiko_id # NoId
        /\ ActiveTerminalGroups(orders[task[t].order].organization_id) = {}
        /\ \E g \in DOMAIN terminal_groups :
              /\ terminal_groups[g].organization_id = orders[task[t].order].organization_id
              /\ terminal_groups[g].iiko_id # NoId
        /\ SurvivingItems(task[t].order) # {}

(***************************************************************************)
(* C13: dispatch of an order whose organization is missing or has no       *)
(* external id returns None at once, whatever the terminal groups and the  *)
(* products are: no payload, no request to the provider, no exception.     *)
(***************************************************************************)
C13_NoOrganizationIdReturnsNone ==
    [][\A t \in Tasks, o \in DOMAIN orders :
          (/\ DispatchCalled(t, o)
           /\ \/ orders[o].organization_id \notin DOMAIN organizations
              \/ organizations[orders[o].organization_id].iiko_id = NoId)
              => ReturnsNoneAtOnce(t)]_vars

\* Dispatch has returned None for an order whose organization has no external
\* id, though an active terminal group and an item to send exist.
C13_Witness ==
    \E t \in Tasks :
        /\ task[t].pc = "done"
        /\ task[t].dispatch = "returned"
        /\ task[t].payload = NoPayload
        /\ organizations[orders[task[t].order].organization_id].iiko_id = NoId
        /\ \E g \in ActiveTerminalGroups(orders[task[t].order].organization_id) :
              terminal_groups[g].iiko_id # NoId
        /\ SurvivingItems(task[t].order) # {}

(***************************************************************************)
(* C14: when no item of the order survives product resolution (no items,   *)
(* or every product missing or without external id), dispatch returns None *)
(* at once and sends no request to the provider.                           *)
(***************************************************************************)
C14_NoSurvivingItemReturnsNone ==
    [][\A t \in Tasks, o \in DOMAIN orders :
          (DispatchCalled(t, o) /\ SurvivingItems(o) = {}) => ReturnsNoneAtOnce(t)]_vars

\* Dispatch has returned None for an order that has an item, of a deleted
\* product, in a store where the organization and a terminal group would do.
C14_Witness ==
    \E t \in Tasks :
        /\ task[t].pc = "done"
        /\ task[t].dispatch = "returned"
        /\ task[t].payload = NoPayload
        /\ organizations[orders[task[t].order].organization_id].iiko_id # NoId
        /\ \E g \in ActiveTerminalGroups(orders[task[t].order].organization_id) :
              terminal_groups[g].iiko_id # NoId
        /\ orders[task[t].order].items # <<>>
        /\ \A i \in DOMAIN orders[task[t].order].items :
              orders[task[t].order].items[i].product_id \notin DOMAIN products

(***************************************************************************)
(* C15: when the provider answers the create-order call with success but   *)
(* without an order id, dispatch returns None and does not raise, the      *)
(* request completes, and the step leaves the order as it was: confirmed,  *)
(* its external id unset.                                                  *)
(***************************************************************************)
C15_AnswerWithoutIdReturnsNone ==
    [][\A t \in Tasks :
          (task[t].pc = "request_wait" /\ task'[t].response \in NoIdResponses) =>
              /\ task'[t].pc = "done"
              /\ task'[t].dispatch = "returned"
              /\ task'[t].iiko_order_id = NoId
              /\ task'[t].result = "ok"
              /\ remoteOrders' = remoteOrders
              /\ orders'[task[t].order].status = orders[task[t].order].status
              /\ orders'[task[t].order].iiko_order_id =
                     orders[task[t].order].iiko_order_id]_vars

\* The provider answered without orderInfo; dispatch returned None and the
\* order is confirmed without external id.
C15_Witness ==
    \E t \in Tasks :
        /\ task[t].pc = "done"
        /\ task[t].response = "no_orderInfo"
        /\ task[t].dispatch = "returned"
        /\ orders[task[t].order].status = "confirmed"
        /\ orders[task[t].order].iiko_order_id = NoId

(***************************************************************************)
(* C16: once an authentication has succeeded, a call made before the       *)
(* cached expiry instant is served from the cache: it continues with the   *)
(* cached token and sends no POST /access_token.                           *)
(***************************************************************************)
\* Task t calls _get_access_token in this step (on entering _make_request)
GetterCalled(t) == task[t].pc = "idle" /\ task'[t].pc \in {"request_wait", "auth_wait"}

C16_CachedTokenServesLaterCalls ==
    [][\A t \in Tasks :
          (/\ GetterCalled(t)
           /\ token_expires_at # NoTime
           /\ now < token_expires_at) =>
              /\ task'[t].pc = "request_wait"
              /\ access_token # NoToken
              /\ task'[t].token = access_token
              /\ authCalls' = authCalls]_vars

(***************************************************************************)
(* C17: the getter returns the cached token only while its expiry instant  *)
(* has not been reached; a call that finds no token, or a token at or past *)
(* its expiry, sends a fresh POST /access_token; and a failed              *)
(* authentication never makes the cache serve a token: if the cache is     *)
(* served from after the failure, it was before it.                        *)
(***************************************************************************)
AuthenticationFailed(t) == task[t].pc = "auth_wait" /\ task'[t].pc = "done"

C17_NoTokenServedPastExpiry ==
    [][\A t \in Tasks :
          /\ (GetterCalled(t) /\ task'[t].pc = "request_wait") =>
                /\ access_token # NoToken
                /\ token_expires_at # NoTime
                /\ now < token_expires_at
                /\ task'[t].token = access_token
          /\ (GetterCalled(t) /\ (access_token = NoToken \/ now >= token_expires_at)) =>
                /\ task'[t].pc = "auth_wait"
                /\ authCalls' = authCalls + 1
          /\ AuthenticationFailed(t) =>
                (CacheValid' => CacheValid)]_vars

\* A token is cached, its expiry instant has been reached, and a caller is
\* authenticating afresh.
C17_Witness ==
    /\ access_token # NoToken
    /\ token_expires_at # NoTime
    /\ now >= token_expires_at
    /\ \E t \in Tasks : task[t].pc = "auth_wait"

(***************************************************************************)
(* C18: a 200/201 answer whose expected field is missing or is not a list  *)
(* (for create-order: whose orderInfo or its id is missing) makes the      *)
(* operation fail; it is never reported as a valid result.                 *)
(***************************************************************************)
MalformedBodies == {"absent", "null", "object"}

C18_MalformedResponseIsAnError ==
    \A t \in Tasks :
        /\ (task[t].kind = "fetch" /\ task[t].response \in MalformedBodies) =>
              (task[t].result = "error" /\ task[t].returned = "none")
        /\ (task[t].kind = "patch"
                /\ task[t].response \in NoIdResponses \cup {"null_orderInfo"}) =>
              task[t].dispatch = "raised"

(***************************************************************************)
(* Flat entities: upsert by external id (crud/organization.py,             *)
(* crud/terminal_group.py, crud/section.py, crud/product.py)               *)
(***************************************************************************)
\* External ids: the one an operation names and a bystander
ExtIds == {1, 2}
Names == {"n1", "n2"}
ImageLists == {<<>>, <<"a">>, <<"b">>}

\* crud get_<entity>_by_iiko_id: the rows with that external id
ByIikoId(table, iiko_id) == {id \in DOMAIN table : table[id].iiko_id = iiko_id}

\* <Entity>Create(**data) and <Entity>(**model_dump()): the fields of the
\* creation schema come from the dict, the others take the column defaults
CreateRow(data, defaults) ==
    [f \in DOMAIN defaults |->
        IF f \in DOMAIN data /\ f # "is_active" THEN data[f] ELSE defaults[f]]

\* The setattr loop of the dict upserts: every key of the dict that is a
\* column is assigned
OverwriteRow(row, data) ==
    [f \in DOMAIN row |-> IF f \in DOMAIN data THEN data[f] ELSE row[f]]

\* OverwriteProductRow without the guard of lines 135-137
OverwriteProductRowClobbering(row, data) ==
    [f \in DOMAIN row |-> IF f \in DOMAIN data THEN data[f] ELSE row[f]]

\* upsert_product, lines 133-138: as OverwriteRow, but an empty incoming
\* images list does not replace a non-empty stored one
OverwriteProductRow(row, data) ==
    [f \in DOMAIN row |->
        IF f \in DOMAIN data
        THEN IF f = "images" /\ data[f] = <<>> /\ row[f] # <<>>
             THEN row[f]
             ELSE data[f]
        ELSE row[f]]

OrganizationDefaults == [iiko_id |-> NoId, name |-> "", is_active |-> TRUE]
TerminalGroupDefaults == [iiko_id |-> NoId, name |-> "", organization_id |-> NoId,
                          is_active |-> TRUE]
SectionDefaults == [iiko_id |-> NoId, name |-> "", terminal_group_id |-> NoId,
                    organization_id |-> NoId, is_active |-> TRUE]
ProductDefaults == [iiko_id |-> NoId, name |-> "", images |-> <<>>, group_id |-> NoId,
                    organization_id |-> NoId, is_active |-> TRUE]

\* The table after an upsert that inserts a second row instead of updating
UpsertedAlwaysInsert(table, data, defaults, id) ==
    (id :> CreateRow(data, defaults)) @@ table

\* upsert_organization / upsert_terminal_group / upsert_section: the table
\* after the call, id being the key a created row gets
Upserted(table, data, defaults, id) ==
    IF ByIikoId(table, data.iiko_id) # {}
    THEN LET existing == CHOOSE e \in ByIikoId(table, data.iiko_id) : TRUE
         IN  [table EXCEPT ![existing] = OverwriteRow(@, data)]
    ELSE (id :> CreateRow(data, defaults)) @@ table

\* upsert_product: the products table after the call
UpsertedProduct(table, data, id) ==
    IF ByIikoId(table, data.iiko_id) # {}
    THEN LET existing == CHOOSE e \in ByIikoId(table, data.iiko_id) : TRUE
         IN  [table EXCEPT ![existing] = OverwriteProductRow(@, data)]
    ELSE (id :> CreateRow(data, ProductDefaults)) @@ table

\* The call record of an upsert
UpsertCall(op, data) ==
    [NoCall EXCEPT !.op = op, !.data = data]

upsert_organization(data) ==
    /\ calls < MaxCalls
    /\ nextId <= MaxId
    /\ organizations' = Upserted(organizations, data, OrganizationDefaults, nextId)
    /\ nextId' = IF DOMAIN organizations' = DOMAIN organizations THEN nextId ELSE nextId + 1
    /\ lastCall' = UpsertCall("upsert_organization", data)
    /\ calls' = calls + 1
    /\ UNCHANGED <<syncVars, authVars, task, terminal_groups, sections, products, groups, orderVars>>

upsert_terminal_group(data) ==
    /\ calls < MaxCalls
    /\ nextId <= MaxId
    /\ data.organization_id \in DOMAIN organizations
    /\ terminal_groups' = Upserted(terminal_groups, data, TerminalGroupDefaults, nextId)
    /\ nextId' = IF DOMAIN terminal_groups' = DOMAIN terminal_groups THEN nextId ELSE nextId + 1
    /\ lastCall' = UpsertCall("upsert_terminal_group", data)
    /\ calls' = calls + 1
    /\ UNCHANGED <<syncVars, authVars, task, organizations, sections, products, groups, orderVars>>

upsert_section(data) ==
    /\ calls < MaxCalls
    /\ nextId <= MaxId
    /\ data.organization_id \in DOMAIN organizations
    /\ data.terminal_group_id \in DOMAIN terminal_groups
    /\ sections' = Upserted(sections, data, SectionDefaults, nextId)
    /\ nextId' = IF DOMAIN sections' = DOMAIN sections THEN nextId ELSE nextId + 1
    /\ lastCall' = UpsertCall("upsert_section", data)
    /\ calls' = calls + 1
    /\ UNCHANGED <<syncVars, authVars, task, organizations, terminal_groups, products, groups, orderVars>>

upsert_product(data) ==
    /\ calls < MaxCalls
    /\ nextId <= MaxId
    /\ data.organization_id \in DOMAIN organizations
    /\ data.group_id \in DOMAIN groups \cup {NoId}
    /\ products' = UpsertedProduct(products, data, nextId)
    /\ nextId' = IF DOMAIN products' = DOMAIN products THEN nextId ELSE nextId + 1
    /\ lastCall' = UpsertCall("upsert_product", data)
    /\ calls' = calls + 1
    /\ UNCHANGED <<syncVars, authVars, task, organizations, terminal_groups, sections, groups, orderVars>>

\* The UPDATE of mark_missing_products_inactive with NOT IN turned into IN
MarkedInactiveListed(table, organization_id, active_iiko_ids) ==
    [id \in DOMAIN table |->
        IF /\ table[id].organization_id = organization_id
           /\ table[id].iiko_id \in active_iiko_ids
           /\ table[id].is_active
        THEN [table[id] EXCEPT !.is_active = FALSE]
        ELSE table[id]]

\* mark_missing_products_inactive, lines 166-172: the UPDATE statement
MarkedInactive(table, organization_id, active_iiko_ids) ==
    [id \in DOMAIN table |->
        IF /\ table[id].organization_id = organization_id
           /\ table[id].iiko_id \notin active_iiko_ids
           /\ table[id].is_active
        THEN [table[id] EXCEPT !.is_active = FALSE]
        ELSE table[id]]

\* The rowcount of an UPDATE that also counts the rows already inactive
DeactivatedCountAllMissing(table, organization_id, active_iiko_ids) ==
    Cardinality({id \in DOMAIN table :
                    /\ table[id].organization_id = organization_id
                    /\ table[id].iiko_id \notin active_iiko_ids})

\* mark_missing_products_inactive, lines 174-177: result.rowcount
DeactivatedCount(table, organization_id, active_iiko_ids) ==
    Cardinality({id \in DOMAIN table :
                    /\ table[id].organization_id = organization_id
                    /\ table[id].iiko_id \notin active_iiko_ids
                    /\ table[id].is_active})

mark_missing_products_inactive(organization_id, active_iiko_ids) ==
    /\ calls < MaxCalls
    /\ products' = MarkedInactive(products, organization_id, active_iiko_ids)
    /\ lastCall' = [NoCall EXCEPT
                       !.op = "mark_missing_products_inactive",
                       !.org = organization_id,
                       !.ids = active_iiko_ids,
                       !.ret = DeactivatedCount(products, organization_id, active_iiko_ids),
                       !.repeated = /\ lastCall.op = "mark_missing_products_inactive"
                                    /\ lastCall.org = organization_id
                                    /\ lastCall.ids = active_iiko_ids]
    /\ calls' = calls + 1
    /\ UNCHANGED <<syncVars, authVars, task, nextId, organizations, terminal_groups, sections,
                   groups, orderVars>>

\* The dicts the sync endpoints build for the upserts
OrganizationData == [iiko_id : ExtIds, name : Names]
TerminalGroupData == [iiko_id : ExtIds, name : Names, organization_id : DOMAIN organizations]
SectionData == [iiko_id : ExtIds, name : Names, organization_id : DOMAIN organizations,
                terminal_group_id : DOMAIN terminal_groups]
ProductData ==
    [iiko_id : ExtIds, name : Names, organization_id : DOMAIN organizations,
     group_id : {NoId}, images : ImageLists]
    \cup [iiko_id : ExtIds, name : Names, organization_id : DOMAIN organizations,
          group_id : {NoId}]

\* The store the upsert scenarios start from: one organization with a
\* terminal group
InitUpsertStore ==
    /\ organizations = (1 :> [iiko_id |-> 1, name |-> "n1", is_active |-> TRUE])
    /\ terminal_groups = (2 :> [iiko_id |-> 1, name |-> "n1", organization_id |-> 1,
                                is_active |-> TRUE])
    /\ sections = EmptyTable
    /\ products = EmptyTable
    /\ groups = EmptyTable
    /\ nextId = 3
    /\ orders = EmptyTable
    /\ dispatchCount = EmptyTable
    /\ remoteOrders = <<>>
    /\ lastCall = NoCall
    /\ calls = 0

InitUpsert == InitService /\ InitUpsertStore

NextUpsert ==
    \/ \E data \in OrganizationData : upsert_organization(data)
    \/ \E data \in TerminalGroupData : upsert_terminal_group(data)
    \/ \E data \in SectionData : upsert_section(data)
    \/ \E data \in ProductData : upsert_product(data)

\* Sequential upserts of the flat entities
SpecUpsert == InitUpsert /\ [][NextUpsert]_vars

\* The store the product scenarios start from: two organizations
InitProductStore ==
    /\ organizations = (1 :> [iiko_id |-> 1, name |-> "n1", is_active |-> TRUE])
                       @@ (2 :> [iiko_id |-> 2, name |-> "n1", is_active |-> TRUE])
    /\ terminal_groups = EmptyTable
    /\ sections = EmptyTable
    /\ products = EmptyTable
    /\ groups = EmptyTable
    /\ nextId = 3
    /\ orders = EmptyTable
    /\ dispatchCount = EmptyTable
    /\ remoteOrders = <<>>
    /\ lastCall = NoCall
    /\ calls = 0

InitProducts == InitService /\ InitProductStore

NextProducts ==
    \/ \E data \in ProductData : upsert_product(data)
    \/ \E org \in DOMAIN organizations, ids \in SUBSET ExtIds :
          mark_missing_products_inactive(org, ids)

\* Product upserts and deactivation of the products missing from a feed
SpecProducts == InitProducts /\ [][NextProducts]_vars

(***************************************************************************)
(* sync_products (api/v1/products.py): the remote group tree and the       *)
(* products are reconciled for each organization of the request.  A feed   *)
(* record is [id, parent, deleted]; its name is absent.                    *)
(***************************************************************************)
\* max_iterations = 10
max_iterations == 10

GroupDefaults == [iiko_id |-> NoId, name |-> "", parent_group_id |-> NoId,
                  organization_id |-> NoId, is_active |-> TRUE]

\* crud/group.py upsert_group: an existing row takes the names, the parent and
\* the flags of the call and keeps its organization; else the row is created
UpsertedGroup(table, group, id) ==
    IF ByIikoId(table, group.iiko_id) # {}
    THEN LET existing == CHOOSE e \in ByIikoId(table, group.iiko_id) : TRUE
         IN  [table EXCEPT ![existing] =
                 [@ EXCEPT !.name = group.name,
                           !.parent_group_id = group.parent_group_id,
                           !.is_active = group.is_active]]
    ELSE (id :> [f \in DOMAIN GroupDefaults |-> group[f]]) @@ table

\* The locals of sync_products and the store while the handler runs;
\* idle_passes counts the passes of the while loop of the organization at hand
\* that upserted no child
StartState ==
    [groups |-> groups, products |-> products, nextId |-> nextId,
     group_id_map |-> EmptyTable, still_remaining |-> <<>>, written |-> EmptyTable,
     iteration |-> 0, remaining |-> <<>>, synced_groups |-> 0, synced_products |-> 0,
     idle_passes |-> 0]

\* Lines 180-199 and 223-242: the GroupCreate is built and upserted, and the
\* row's id is entered into group_id_map
WriteGroup(st, g, parent_group_id, organization_id) ==
    LET group == [iiko_id |-> g.id, name |-> "Unnamed Group",
                  parent_group_id |-> parent_group_id,
                  organization_id |-> organization_id, is_active |-> TRUE]
        table == UpsertedGroup(st.groups, group, st.nextId)
        db_group == CHOOSE e \in ByIikoId(table, g.id) : TRUE
    IN  [st EXCEPT !.groups = table,
                   !.nextId = IF DOMAIN table = DOMAIN st.groups THEN @ ELSE @ + 1,
                   !.group_id_map = (g.id :> db_group) @@ @,
                   !.written = (g.id :> db_group) @@ @,
                   !.synced_groups = @ + 1]

\* RootStep without the test of line 177
RootStepWritingDeleted(st, g, organization_id) ==
    WriteGroup(st, g, NoId, organization_id)

\* Lines 175-199: one root group
RootStep(st, g, organization_id) ==
    IF g.deleted THEN st ELSE WriteGroup(st, g, NoId, organization_id)

\* ChildStep writing a child whose parent is not mapped as a root
ChildStepOrphansAsRoots(st, g, organization_id) ==
    IF g.deleted
    THEN st
    ELSE WriteGroup(st, g,
                    IF g.parent \in DOMAIN st.group_id_map
                    THEN st.group_id_map[g.parent] ELSE NoId,
                    organization_id)

\* Lines 214-245: one child group of a pass
ChildStep(st, g, organization_id) ==
    IF g.deleted
    THEN st
    ELSE IF g.parent \in DOMAIN st.group_id_map
         THEN WriteGroup(st, g, st.group_id_map[g.parent], organization_id)
         ELSE [st EXCEPT !.still_remaining = Append(@, g)]

RECURSIVE RootsLoop(_, _, _)
RootsLoop(st, root_groups, organization_id) ==
    IF root_groups = <<>>
    THEN st
    ELSE RootsLoop(RootStep(st, Head(root_groups), organization_id),
                   Tail(root_groups), organization_id)

\* Lines 214-249: one pass over remaining
RECURSIVE ChildPass(_, _, _)
ChildPass(st, remaining, organization_id) ==
    IF remaining = <<>>
    THEN st
    ELSE ChildPass(ChildStep(st, Head(remaining), organization_id),
                   Tail(remaining), organization_id)

\* Lines 206-251: while remaining and iteration < max_iterations
RECURSIVE ChildLoop(_, _, _, _)
ChildLoop(st, remaining, iteration, organization_id) ==
    IF remaining # <<>> /\ iteration < max_iterations
    THEN LET pass == ChildPass([st EXCEPT !.still_remaining = <<>>], remaining,
                               organization_id)
             upserted == pass.synced_groups - st.synced_groups
         IN  ChildLoop([pass EXCEPT !.idle_passes = IF upserted = 0 THEN @ + 1 ELSE @],
                       pass.still_remaining, iteration + 1, organization_id)
    ELSE [st EXCEPT !.iteration = iteration, !.remaining = remaining]

\* Lines 256-288: one product
ProductStep(st, p, organization_id) ==
    IF p.deleted
    THEN st
    ELSE LET group_id == IF p.parent # NoId /\ p.parent \in DOMAIN st.group_id_map
                         THEN st.group_id_map[p.parent] ELSE NoId
             product_data == [iiko_id |-> p.id, name |-> "Unnamed Product",
                              images |-> <<>>, organization_id |-> organization_id,
                              group_id |-> group_id]
             table == UpsertedProduct(st.products, product_data, st.nextId)
         IN  [st EXCEPT !.products = table,
                        !.nextId = IF DOMAIN table = DOMAIN st.products THEN @ ELSE @ + 1,
                        !.synced_products = @ + 1]

RECURSIVE ProductsLoop(_, _, _)
ProductsLoop(st, resto_products, organization_id) ==
    IF resto_products = <<>>
    THEN st
    ELSE ProductsLoop(ProductStep(st, Head(resto_products), organization_id),
                      Tail(resto_products), organization_id)

IsRoot(g) == g.parent = NoId
IsChild(g) == g.parent # NoId

\* SyncOrganization running the child passes before the roots are created
SyncOrganizationChildrenFirst(st, org_iiko_id, resto_groups, resto_products) ==
    IF ByIikoId(organizations, org_iiko_id) = {}
    THEN st
    ELSE LET org == CHOOSE o \in ByIikoId(organizations, org_iiko_id) : TRUE
             children == ChildLoop([st EXCEPT !.group_id_map = EmptyTable,
                                              !.idle_passes = 0],
                                   SelectSeq(resto_groups, IsChild), 0, org)
             roots == RootsLoop(children, SelectSeq(resto_groups, IsRoot), org)
         IN  ProductsLoop(roots, resto_products, org)

\* SyncOrganization ending with the deactivation of the organization's
\* products that the feed does not list
SyncOrganizationMarkingMissing(st, org_iiko_id, resto_groups, resto_products) ==
    IF ByIikoId(organizations, org_iiko_id) = {}
    THEN st
    ELSE LET org == CHOOSE o \in ByIikoId(organizations, org_iiko_id) : TRUE
             roots == RootsLoop([st EXCEPT !.group_id_map = EmptyTable,
                                           !.idle_passes = 0],
                                SelectSeq(resto_groups, IsRoot), org)
             children == ChildLoop(roots, SelectSeq(resto_groups, IsChild), 0, org)
             synced == ProductsLoop(children, resto_products, org)
         IN  [synced EXCEPT !.products =
                 MarkedInactive(@, org, {resto_products[i].id : i \in DOMAIN resto_products})]

\* Lines 158-294: one organization of the request
SyncOrganization(st, org_iiko_id, resto_groups, resto_products) ==
    IF ByIikoId(organizations, org_iiko_id) = {}
    THEN st
    ELSE LET org == CHOOSE o \in ByIikoId(organizations, org_iiko_id) : TRUE
             roots == RootsLoop([st EXCEPT !.group_id_map = EmptyTable,
                                           !.idle_passes = 0],
                                SelectSeq(resto_groups, IsRoot), org)
             children == ChildLoop(roots, SelectSeq(resto_groups, IsChild), 0, org)
         IN  ProductsLoop(children, resto_products, org)

\* Line 157: for org_iiko_id in organization_ids
RECURSIVE OrganizationsLoop(_, _, _, _)
OrganizationsLoop(st, organization_ids, resto_groups, resto_products) ==
    IF organization_ids = <<>>
    THEN st
    ELSE OrganizationsLoop(
             SyncOrganization(st, Head(organization_ids), resto_groups, resto_products),
             Tail(organization_ids), resto_groups, resto_products)

\* The rows of a table listed in some order (a query without ORDER BY)
Listings(table) ==
    {l \in [1..Cardinality(DOMAIN table) -> DOMAIN table] :
        \A i, j \in DOMAIN l : i # j => l[i] # l[j]}

\* Lines 129-148: the request is received, its organization ids are resolved
\* and the feed is requested
sync_products(organization_ids) ==
    /\ sync.pc \in {"idle", "done"}
    /\ syncs < MaxSyncs
    /\ syncs' = syncs + 1
    /\ \E l \in Listings(organizations) :
          LET ids == IF organization_ids = <<>>
                     THEN [i \in DOMAIN l |-> organizations[l[i]].iiko_id]
                     ELSE organization_ids
          IN  sync' = IF ids = <<>>
                      THEN [IdleSync EXCEPT !.pc = "done", !.status = 400]
                      ELSE [IdleSync EXCEPT !.pc = "fetch_wait", !.organization_ids = ids]
    /\ UNCHANGED <<authVars, task, nextId, catalogVars, orderVars, callVars>>

\* Lines 147-306: the feed has arrived and every organization is processed
SyncFetched(resto_groups, resto_products) ==
    /\ sync.pc = "fetch_wait"
    /\ LET st == OrganizationsLoop(StartState, sync.organization_ids, resto_groups,
                                   resto_products)
       IN  /\ groups' = st.groups
           /\ products' = st.products
           /\ nextId' = st.nextId
           /\ sync' = [sync EXCEPT !.pc = "done", !.status = 200,
                                   !.resto_groups = resto_groups,
                                   !.resto_products = resto_products,
                                   !.written = st.written,
                                   !.iteration = st.iteration,
                                   !.remaining = st.remaining,
                                   !.idle_passes = st.idle_passes,
                                   !.synced_groups = st.synced_groups,
                                   !.synced_products = st.synced_products]
    /\ UNCHANGED <<authVars, task, organizations, terminal_groups, sections, orderVars,
                   callVars, syncs>>

\* Lines 149-154: the feed could not be fetched
SyncFetchFailed ==
    /\ sync.pc = "fetch_wait"
    /\ sync' = [sync EXCEPT !.pc = "done", !.status = 500]
    /\ UNCHANGED <<authVars, task, nextId, catalogVars, orderVars, callVars, syncs>>

\* The feeds: the lists of up to two records, deleted ones and cycles among
\* them; three live records in every order, as a chain, a star, two roots and
\* a child, a root with a child and a group of an absent parent (99), a root
\* with the child of such a group, a root beside a cycle; and chains of
\* max_iterations and max_iterations + 1 descendants, the root first or last
FeedRecord(id, parents, flags) ==
    {[id |-> id, parent |-> p, deleted |-> d] : p \in parents, d \in flags}

PairRecords(id) == FeedRecord(id, {NoId, 1, 2}, BOOLEAN)

PairFeeds ==
    {<<>>} \cup {<<a>> : a \in PairRecords(1) \cup PairRecords(2)}
           \cup {<<a, b>> : a \in PairRecords(1), b \in PairRecords(2)}
           \cup {<<b, a>> : a \in PairRecords(1), b \in PairRecords(2)}

TripleParents ==
    {<<NoId, 1, 2>>, <<NoId, 1, 1>>, <<NoId, NoId, 1>>, <<NoId, 1, 99>>,
     <<NoId, 99, 2>>, <<NoId, 3, 2>>}

TripleFeeds ==
    {[i \in 1..3 |-> [id |-> l[i], parent |-> ps[l[i]], deleted |-> FALSE]] :
        ps \in TripleParents,
        l \in {<<1, 2, 3>>, <<1, 3, 2>>, <<2, 1, 3>>, <<2, 3, 1>>, <<3, 1, 2>>, <<3, 2, 1>>}}

ChainRecord(i) == [id |-> i, parent |-> i - 1, deleted |-> FALSE]

ChainFeeds ==
    UNION {{[i \in 1..(d + 1) |-> ChainRecord(i)],
            [i \in 1..(d + 1) |-> ChainRecord(d + 2 - i)]} :
           d \in {max_iterations, max_iterations + 1}}

GroupFeeds == PairFeeds \cup TripleFeeds \cup ChainFeeds

ProductFeeds ==
    {<<[id |-> 1, parent |-> 1, deleted |-> FALSE],
       [id |-> 2, parent |-> NoId, deleted |-> FALSE],
       [id |-> 3, parent |-> 2, deleted |-> TRUE]>>}

\* No list (every organization of the store), one organization, the other one,
\* an unknown one
OrganizationIdLists == {<<>>, <<1>>, <<2>>, <<3>>}

TwoOrganizations ==
    (1 :> [iiko_id |-> 1, name |-> "n1", is_active |-> TRUE])
    @@ (2 :> [iiko_id |-> 2, name |-> "n2", is_active |-> TRUE])

\* The groups and the products that a sync of organization 1 leaves, the feed
\* having listed group 2 as a root and group 1 as its child
EarlierGroups ==
    (3 :> [iiko_id |-> 2, name |-> "Unnamed Group", parent_group_id |-> NoId,
           organization_id |-> 1, is_active |-> TRUE])
    @@ (4 :> [iiko_id |-> 1, name |-> "Unnamed Group", parent_group_id |-> 3,
              organization_id |-> 1, is_active |-> TRUE])

EarlierProducts ==
    (5 :> [iiko_id |-> 1, name |-> "Unnamed Product", images |-> <<>>, group_id |-> 4,
           organization_id |-> 1, is_active |-> TRUE])
    @@ (6 :> [iiko_id |-> 2, name |-> "Unnamed Product", images |-> <<>>,
              group_id |-> NoId, organization_id |-> 1, is_active |-> TRUE])
    @@ (7 :> [iiko_id |-> 3, name |-> "Unnamed Product", images |-> <<>>,
              group_id |-> 3, organization_id |-> 1, is_active |-> TRUE])
    @@ (8 :> [iiko_id |-> 4, name |-> "Unnamed Product", images |-> <<>>,
              group_id |-> NoId, organization_id |-> 1, is_active |-> TRUE])

\* The store has no organization yet, or two and no group, or two and the
\* groups of an earlier sync
SyncStores ==
    {[organizations |-> EmptyTable, groups |-> EmptyTable, products |-> EmptyTable],
     [organizations |-> TwoOrganizations, groups |-> EmptyTable, products |-> EmptyTable],
     [organizations |-> TwoOrganizations, groups |-> EarlierGroups,
      products |-> EarlierProducts]}

InitSyncStore ==
    /\ \E store \in SyncStores :
          /\ organizations = store.organizations
          /\ groups = store.groups
          /\ products = store.products
          /\ nextId = Cardinality(DOMAIN store.organizations)
                        + Cardinality(DOMAIN store.groups)
                        + Cardinality(DOMAIN store.products) + 1
    /\ terminal_groups = EmptyTable
    /\ sections = EmptyTable
    /\ orders = EmptyTable
    /\ dispatchCount = EmptyTable
    /\ remoteOrders = <<>>
    /\ lastCall = NoCall
    /\ calls = 0

InitSync == InitService /\ InitSyncStore

NextSync ==
    \/ \E organization_ids \in OrganizationIdLists : sync_products(organization_ids)
    \/ \E resto_groups \in GroupFeeds, resto_products \in ProductFeeds :
          SyncFetched(resto_groups, resto_products)
    \/ SyncFetchFailed

SpecSync == InitSync /\ [][NextSync]_vars

(***************************************************************************)
(* The group endpoints (api/v1/groups.py over crud/group.py), called one   *)
(* after the other and around a sync run.                                  *)
(***************************************************************************)
\* What the latest group request was and the status it was answered with
GroupCall(op, ret) == [NoCall EXCEPT !.op = op, !.ret = ret]

\* POST /groups: the parent, when given, must be a row (404 otherwise); the
\* INSERT fails on a second row of the same iiko_id (unique) and on an
\* organization that is no row (foreign key), which the handler does not catch
create_group(group) ==
    /\ calls < MaxCalls
    /\ calls' = calls + 1
    /\ IF group.parent_group_id # NoId /\ group.parent_group_id \notin DOMAIN groups
       THEN /\ lastCall' = GroupCall("create_group", 404)
            /\ UNCHANGED <<groups, nextId>>
       ELSE IF \/ ByIikoId(groups, group.iiko_id) # {}
               \/ group.organization_id \notin DOMAIN organizations
            THEN /\ lastCall' = GroupCall("create_group", 500)
                 /\ UNCHANGED <<groups, nextId>>
            ELSE /\ groups' = (nextId :> group) @@ groups
                 /\ nextId' = nextId + 1
                 /\ lastCall' = GroupCall("create_group", 201)
    /\ UNCHANGED <<syncVars, authVars, task, organizations, terminal_groups, sections,
                   products, orderVars>>

\* PUT /groups/{group_id}: the fields the body sets are assigned; a parent that
\* is no row fails the UPDATE (foreign key groups.id)
update_group(group_id, update_data) ==
    /\ calls < MaxCalls
    /\ calls' = calls + 1
    /\ IF group_id \notin DOMAIN groups
       THEN /\ lastCall' = GroupCall("update_group", 404)
            /\ UNCHANGED groups
       ELSE IF /\ "parent_group_id" \in DOMAIN update_data
               /\ update_data.parent_group_id \notin DOMAIN groups \cup {NoId}
            THEN /\ lastCall' = GroupCall("update_group", 500)
                 /\ UNCHANGED groups
            ELSE /\ groups' = [groups EXCEPT ![group_id] = OverwriteRow(@, update_data)]
                 /\ lastCall' = GroupCall("update_group", 200)
    /\ UNCHANGED <<syncVars, authVars, task, nextId, organizations, terminal_groups,
                   sections, products, orderVars>>

\* models/group.py lines 46-47: children and products are deleted with
\* their group (cascade="all, delete-orphan")
RECURSIVE WithDescendants(_, _)
WithDescendants(table, ids) ==
    LET more == ids \cup {id \in DOMAIN table : table[id].parent_group_id \in ids}
    IN  IF more = ids THEN ids ELSE WithDescendants(table, more)

\* DELETE /groups/{group_id}
delete_group(group_id) ==
    /\ calls < MaxCalls
    /\ calls' = calls + 1
    /\ IF group_id \notin DOMAIN groups
       THEN /\ lastCall' = GroupCall("delete_group", 404)
            /\ UNCHANGED <<groups, products>>
       ELSE LET deleted == WithDescendants(groups, {group_id})
            IN  /\ groups' = [id \in DOMAIN groups \ deleted |-> groups[id]]
                /\ products' = [id \in {x \in DOMAIN products :
                                            products[x].group_id \notin deleted}
                                   |-> products[id]]
                /\ lastCall' = GroupCall("delete_group", 204)
    /\ UNCHANGED <<syncVars, authVars, task, nextId, organizations, terminal_groups,
                   sections, orderVars>>

\* The bodies of POST /groups: a new or a taken iiko_id, no parent, a parent
\* that is a row, or one that is none (nextId is no row's id)
GroupCreates ==
    [iiko_id : {2, 3}, name : {"n1"}, parent_group_id : DOMAIN groups \cup {NoId, nextId},
     organization_id : DOMAIN organizations, is_active : {TRUE}]

\* The bodies of PUT /groups/{group_id}: the parent is set, or the flag is
GroupUpdates ==
    {[parent_group_id |-> p] : p \in DOMAIN groups \cup {NoId, nextId}}
        \cup {[is_active |-> FALSE]}

\* The remote hierarchy of two groups, one way and the other
HierarchyFeeds ==
    {<<[id |-> 1, parent |-> NoId, deleted |-> FALSE],
       [id |-> 2, parent |-> 1, deleted |-> FALSE]>>,
     <<[id |-> 1, parent |-> 2, deleted |-> FALSE],
       [id |-> 2, parent |-> NoId, deleted |-> FALSE]>>}

InitGroups == InitService /\ InitSyncStore

NextGroups ==
    \/ \E group \in GroupCreates : create_group(group)
    \/ \E group_id \in DOMAIN groups \cup {nextId}, update_data \in GroupUpdates :
          update_group(group_id, update_data)
    \/ \E group_id \in DOMAIN groups \cup {nextId} : delete_group(group_id)
    \/ sync_products(<<>>)
    \/ \E resto_groups \in HierarchyFeeds : SyncFetched(resto_groups, <<>>)
    \/ SyncFetchFailed

\* Group requests and a sync run, one at a time
SpecGroups == InitGroups /\ [][NextGroups]_vars

(***************************************************************************)
(* sync_sections (api/v1/sections.py): terminal groups, then the tables of *)
(* every restaurant section.  A table is [id, isDeleted]; the provider     *)
(* may send a table without an id (NoId).                                  *)
(***************************************************************************)
\* The state the handler threads through its loops: the two tables it
\* writes, the next key, terminal_group_map, synced_count and len(errors)
SectionsState(tgs, secs, id) ==
    [terminal_groups |-> tgs, sections |-> secs, nextId |-> id,
     terminal_group_map |-> EmptyTable, synced_count |-> 0, errors |-> 0]

\* One terminal group of the response: get or create, then map it to the
\* organization of the response entry
MapTerminalGroup(st, org, iiko_id) ==
    LET existing == ByIikoId(st.terminal_groups, iiko_id)
        found == existing # {}
        db_terminal_group == IF found THEN CHOOSE e \in existing : TRUE ELSE st.nextId
        created == (st.nextId :> CreateRow([iiko_id |-> iiko_id, name |-> "n1",
                                            organization_id |-> org],
                                           TerminalGroupDefaults))
                   @@ st.terminal_groups
    IN  [st EXCEPT !.terminal_groups = IF found THEN @ ELSE created,
                   !.nextId = IF found THEN @ ELSE @ + 1,
                   !.terminal_group_map =
                       (iiko_id :> [org |-> org, id |-> db_terminal_group]) @@ @]

RECURSIVE TerminalGroupItems(_, _, _)
TerminalGroupItems(st, org, items) ==
    IF items = <<>> THEN st
    ELSE TerminalGroupItems(MapTerminalGroup(st, org, Head(items)), org, Tail(items))

\* for org_data in terminal_groups_response: an unknown organization is skipped
RECURSIVE TerminalGroupsLoop(_, _)
TerminalGroupsLoop(st, response) ==
    IF response = <<>> THEN st
    ELSE LET org_data == Head(response)
             org == ByIikoId(organizations, org_data.organizationId)
         IN  IF org = {}
             THEN TerminalGroupsLoop(st, Tail(response))
             ELSE TerminalGroupsLoop(
                      TerminalGroupItems(st, CHOOSE o \in org : TRUE, org_data.items),
                      Tail(response))

\* crud_section.upsert_section followed by synced_count += 1
SectionUpserted(st, section_data) ==
    LET table == Upserted(st.sections, section_data, SectionDefaults, st.nextId)
    IN  [st EXCEPT !.sections = table,
                   !.nextId = IF DOMAIN table = DOMAIN st.sections THEN @ ELSE @ + 1,
                   !.synced_count = @ + 1]

\* section_data of a table (or of the whole area) of a mapped section
SectionDataOf(iiko_id, mapped) ==
    [iiko_id |-> iiko_id, name |-> "n1", terminal_group_id |-> mapped.id,
     organization_id |-> mapped.org]

\* for table in tables: a table without an id makes SectionCreate raise;
\* the exception leaves the loop and is caught by the handler of the section
RECURSIVE TablesLoop(_, _, _)
TablesLoop(st, tables, mapped) ==
    IF tables = <<>> THEN st
    ELSE LET table == Head(tables)
         IN  IF table.isDeleted
             THEN TablesLoop(st, Tail(tables), mapped)
             ELSE IF table.id = NoId
             THEN [st EXCEPT !.errors = @ + 1]
             ELSE TablesLoop(SectionUpserted(st, SectionDataOf(table.id, mapped)),
                             Tail(tables), mapped)

\* The body of "for iiko_section in sections"
SectionStep(st, iiko_section) ==
    IF iiko_section.terminalGroupId \notin DOMAIN st.terminal_group_map
    THEN st
    ELSE LET mapped == st.terminal_group_map[iiko_section.terminalGroupId]
         IN  IF iiko_section.tables # <<>>
             THEN TablesLoop(st, iiko_section.tables, mapped)
             ELSE IF iiko_section.id = NoId
             THEN [st EXCEPT !.errors = @ + 1]
             ELSE SectionUpserted(st, SectionDataOf(iiko_section.id, mapped))

RECURSIVE SectionsLoop(_, _)
SectionsLoop(st, restaurant_sections) ==
    IF restaurant_sections = <<>> THEN st
    ELSE SectionsLoop(SectionStep(st, Head(restaurant_sections)),
                      Tail(restaurant_sections))

SectionsCall(terminal_groups_response, restaurant_sections, ret) ==
    [NoCall EXCEPT !.op = "sync_sections",
                   !.data = [terminal_groups_response |-> terminal_groups_response,
                             restaurant_sections |-> restaurant_sections],
                   !.ret = ret]

\* POST /sections/sync with both provider calls answered
sync_sections(terminal_groups_response, restaurant_sections) ==
    /\ calls < MaxSyncs
    /\ organizations # EmptyTable
    /\ LET mapped == TerminalGroupsLoop(
                         SectionsState(terminal_groups, sections, nextId),
                         terminal_groups_response)
           done == IF DOMAIN mapped.terminal_group_map # {}
                   THEN SectionsLoop(mapped, restaurant_sections)
                   ELSE mapped
       IN  /\ terminal_groups' = done.terminal_groups
           /\ sections' = done.sections
           /\ nextId' = done.nextId
           /\ lastCall' = SectionsCall(terminal_groups_response, restaurant_sections,
                                       [status |-> 200,
                                        synced_count |-> done.synced_count,
                                        errors |-> done.errors])
    /\ calls' = calls + 1
    /\ UNCHANGED <<syncVars, authVars, task, organizations, products, groups, orderVars>>

\* POST /sections/sync when get_terminal_groups raises: the outer handler
\* answers 500 and nothing was written
SyncSectionsFetchFailed ==
    /\ calls < MaxSyncs
    /\ organizations # EmptyTable
    /\ lastCall' = SectionsCall(<<>>, <<>>, [status |-> 500, synced_count |-> 0,
                                              errors |-> 0])
    /\ calls' = calls + 1
    /\ UNCHANGED <<syncVars, authVars, task, organizations, terminal_groups, sections,
                   products, groups, nextId, orderVars>>

\* What get_terminal_groups may answer: the known organization with its
\* terminal group, with a new one, or an organization the store lacks
TerminalGroupResponses ==
    {<<[organizationId |-> 1, items |-> <<1>>]>>,
     <<[organizationId |-> 1, items |-> <<1, 2>>]>>,
     <<[organizationId |-> 2, items |-> <<2>>]>>}

Tables == [id : {NoId, 1, 2}, isDeleted : BOOLEAN]

\* What get_available_restaurant_sections may answer: one section with up
\* to two tables
RestaurantSections ==
    {<<[id |-> 3, terminalGroupId |-> tg, tables |-> tables]>> :
        tg \in {1, 2},
        tables \in {<<>>} \cup {<<a>> : a \in Tables}
                          \cup {<<a, b>> : a \in Tables, b \in Tables}}

InitSections == InitService /\ InitUpsertStore

NextSections ==
    \/ \E terminal_groups_response \in TerminalGroupResponses,
          restaurant_sections \in RestaurantSections :
          sync_sections(terminal_groups_response, restaurant_sections)
    \/ SyncSectionsFetchFailed

\* Section syncs, one after another
SpecSections == InitSections /\ [][NextSections]_vars

(***************************************************************************)
(* Overlapping POST /products/sync requests.  The handler awaits the feed  *)
(* (lines 147-148) and then runs every lookup and write of its upserts     *)
(* without another await: upsert_group and upsert_product are plain        *)
(* functions called from the coroutine, so a request that resumes runs     *)
(* to its response before any other coroutine of the event loop moves.     *)
(***************************************************************************)
\* What the log keeps of a request that has written: the feed, the
\* organizations, the requests that were awaiting their feed meanwhile, the
\* external ids of the products it created, and whether it was itself
\* awaiting when the request before it created a product it wrote too
SyncCall(t, organization_ids, resto_groups, resto_products, before, after) ==
    LET created == {after[id].iiko_id : id \in DOMAIN after \ DOMAIN before}
        live == {resto_products[i].id :
                    i \in {n \in DOMAIN resto_products : ~resto_products[n].deleted}}
    IN  [NoCall EXCEPT !.op = "sync_products",
                       !.data = [organization_ids |-> organization_ids,
                                 resto_groups |-> resto_groups,
                                 resto_products |-> resto_products],
                       !.org = t,
                       !.ids = {u \in Tasks \ {t} : task[u].pc = "fetch_wait"},
                       !.ret = [status |-> 200, created |-> created],
                       !.repeated = /\ lastCall.op = "sync_products"
                                    /\ t \in lastCall.ids
                                    /\ lastCall.ret.created \cap live # {}]

\* Lines 129-148: a request is received, resolves its organization ids and
\* awaits the feed
SyncRequested(t, organization_ids) ==
    /\ task[t].pc = "idle"
    /\ syncs <= MaxSyncs
    /\ syncs' = syncs + 1
    /\ \E l \in Listings(organizations) :
          LET ids == IF organization_ids = <<>>
                     THEN [i \in DOMAIN l |-> organizations[l[i]].iiko_id]
                     ELSE organization_ids
          IN  task' = [task EXCEPT ![t] =
                          IF ids = <<>>
                          THEN [IdleTask EXCEPT !.returned = "400"]
                          ELSE [IdleTask EXCEPT !.pc = "fetch_wait",
                                                !.kind = "sync_products",
                                                !.payload = ids]]
    /\ UNCHANGED <<authVars, nextId, catalogVars, orderVars, callVars, sync>>

\* SyncResumed with its lookups answered from the store as it was before
\* any request wrote, and its rows added to those written meanwhile
SyncResumedOnTheStoreAtCall(t, resto_groups, resto_products) ==
    /\ task[t].pc = "fetch_wait"
    /\ task[t].kind = "sync_products"
    /\ LET st == OrganizationsLoop([StartState EXCEPT !.groups = EmptyTable,
                                                      !.products = EmptyTable],
                                   task[t].payload, resto_groups, resto_products)
       IN  /\ groups' = st.groups @@ groups
           /\ products' = st.products @@ products
           /\ nextId' = st.nextId
           /\ lastCall' = SyncCall(t, task[t].payload, resto_groups, resto_products,
                                   products,
                                   st.products @@ products)
    /\ task' = [task EXCEPT ![t] = [IdleTask EXCEPT !.returned = "200"]]
    /\ UNCHANGED <<authVars, organizations, terminal_groups, sections, orderVars,
                   calls, syncVars>>

\* Lines 147-306: the feed of request t has arrived; the request processes
\* every organization against the store as it is now and answers
SyncResumed(t, resto_groups, resto_products) ==
    /\ task[t].pc = "fetch_wait"
    /\ task[t].kind = "sync_products"
    /\ LET st == OrganizationsLoop(StartState, task[t].payload, resto_groups,
                                   resto_products)
       IN  /\ groups' = st.groups
           /\ products' = st.products
           /\ nextId' = st.nextId
           /\ lastCall' = SyncCall(t, task[t].payload, resto_groups, resto_products,
                                   products,
                                   st.products)
    /\ task' = [task EXCEPT ![t] = [IdleTask EXCEPT !.returned = "200"]]
    /\ UNCHANGED <<authVars, organizations, terminal_groups, sections, orderVars,
                   calls, syncVars>>

\* Lines 149-154: the feed of request t could not be fetched
SyncFailed(t) ==
    /\ task[t].pc = "fetch_wait"
    /\ task[t].kind = "sync_products"
    /\ task' = [task EXCEPT ![t] = [IdleTask EXCEPT !.returned = "500"]]
    /\ UNCHANGED <<authVars, nextId, catalogVars, orderVars, callVars, syncVars>>

\* The feeds of the overlapping requests: no group or one root, and one or
\* two products, one of them listed as deleted
RaceGroupFeeds == {<<>>, <<[id |-> 1, parent |-> NoId, deleted |-> FALSE]>>}

RaceProductFeeds ==
    {<<[id |-> 1, parent |-> 1, deleted |-> FALSE]>>}
    \cup {<<[id |-> 1, parent |-> NoId, deleted |-> FALSE],
             [id |-> 2, parent |-> 1, deleted |-> d]>> : d \in BOOLEAN}

RaceOrganizationIdLists == {<<>>, <<1>>, <<2>>}

InitConcurrentSync == InitService /\ InitProductStore

NextConcurrentSync ==
    \/ \E t \in Tasks, organization_ids \in RaceOrganizationIdLists :
          SyncRequested(t, organization_ids)
    \/ \E t \in Tasks, resto_groups \in RaceGroupFeeds,
          resto_products \in RaceProductFeeds :
          SyncResumed(t, resto_groups, resto_products)
    \/ \E t \in Tasks : SyncFailed(t)

\* Product syncs whose requests overlap
SpecConcurrentSync == InitConcurrentSync /\ [][NextConcurrentSync]_vars

(***************************************************************************)
(* C5: for a valid forest (distinct ids, no deleted record, every parent   *)
(* listed, no cycle) in any order and of any depth, the sync stores every  *)
(* group of the feed, and each stored group has the parent that processing *)
(* the roots first and then the children in dependency order gives it.     *)
(***************************************************************************)
FeedIds(feed) == {feed[i].id : i \in DOMAIN feed}

ParentIn(feed, id) == feed[CHOOSE i \in DOMAIN feed : feed[i].id = id].parent

\* Following the parents from id ends at a root within fuel steps
RECURSIVE ReachesRoot(_, _, _)
ReachesRoot(feed, id, fuel) ==
    \/ id = NoId
    \/ /\ fuel > 0
       /\ id \in FeedIds(feed)
       /\ ReachesRoot(feed, ParentIn(feed, id), fuel - 1)

ValidForest(feed) ==
    /\ \A i, j \in DOMAIN feed : i # j => feed[i].id # feed[j].id
    /\ \A i \in DOMAIN feed : ~feed[i].deleted
    /\ \A i \in DOMAIN feed : ReachesRoot(feed, feed[i].id, Len(feed))

RECURSIVE DepthIn(_, _)
DepthIn(feed, id) ==
    IF ParentIn(feed, id) = NoId THEN 0 ELSE 1 + DepthIn(feed, ParentIn(feed, id))

\* The records of a valid forest, parents before children
RECURSIVE FromDepth(_, _)
FromDepth(feed, d) ==
    IF d >= Len(feed)
    THEN <<>>
    ELSE LET AtDepth(g) == DepthIn(feed, g.id) = d
         IN  SelectSeq(feed, AtDepth) \o FromDepth(feed, d + 1)

DependencyOrder(feed) == FromDepth(feed, 0)

\* The external id of the parent of the group stored for iiko_id: NoId for a
\* root, -1 when the group is not stored
StoredParent(table, iiko_id) ==
    IF ByIikoId(table, iiko_id) = {}
    THEN -1
    ELSE LET row == table[CHOOSE e \in ByIikoId(table, iiko_id) : TRUE]
         IN  IF row.parent_group_id = NoId
             THEN NoId
             ELSE table[row.parent_group_id].iiko_id

KnownOrganization(organization_ids) ==
    \E i \in DOMAIN organization_ids : ByIikoId(organizations, organization_ids[i]) # {}

C5_SyncIsOrderIndependent ==
    [][(/\ sync.pc = "fetch_wait"
        /\ sync'.status = 200
        /\ KnownOrganization(sync.organization_ids)
        /\ ValidForest(sync'.resto_groups)) =>
          LET feed == sync'.resto_groups
              ordered == OrganizationsLoop(StartState, sync.organization_ids,
                                           DependencyOrder(feed), sync'.resto_products)
          IN  \A id \in FeedIds(feed) :
                  /\ ByIikoId(groups', id) # {}
                  /\ StoredParent(groups', id) = StoredParent(ordered.groups, id)]_vars

(***************************************************************************)
(* C6: when a sync run has ended, no record whose parent was not upserted  *)
(* by the run has been upserted by it, and every group the run wrote has   *)
(* no parent or a parent that is a row of the groups table.                *)
(***************************************************************************)
C6_NoOrphanIsWritten ==
    (sync.pc = "done" /\ sync.status = 200) =>
        /\ \A i \in DOMAIN sync.resto_groups :
              LET g == sync.resto_groups[i]
              IN  (g.parent # NoId /\ g.parent \notin DOMAIN sync.written) =>
                      g.id \notin DOMAIN sync.written
        /\ \A x \in DOMAIN sync.written :
              /\ sync.written[x] \in DOMAIN groups
              /\ groups[sync.written[x]].parent_group_id \in DOMAIN groups \cup {NoId}

\* A run has ended that wrote a child under its parent and left out a group
\* whose parent is not in the feed, after every pass allowed.
C6_Witness ==
    /\ sync.pc = "done"
    /\ sync.status = 200
    /\ sync.iteration = max_iterations
    /\ \E i \in DOMAIN sync.resto_groups :
          /\ ~sync.resto_groups[i].deleted
          /\ sync.resto_groups[i].parent \notin FeedIds(sync.resto_groups) \cup {NoId}
          /\ sync.resto_groups[i].id \notin DOMAIN sync.written
    /\ \E x \in DOMAIN sync.written : groups[sync.written[x]].parent_group_id # NoId

(***************************************************************************)
(* C19: the child-resolution loop of a sync run that has ended made at     *)
(* most max_iterations passes, and at most one pass that upserted no       *)
(* child: the loop stops after the first such pass.                        *)
(***************************************************************************)
C19_ChildLoopStopsWithoutProgress ==
    (sync.pc = "done" /\ sync.status = 200) =>
        /\ sync.iteration <= max_iterations
        /\ sync.idle_passes <= 1

(***************************************************************************)
(* C20: a sync run leaves the rows of every group and of every product     *)
(* that the feed flags deleted as they were: no row with that external id  *)
(* is created, and a row with that external id keeps all its fields.       *)
(***************************************************************************)
DeletedIds(feed) == {feed[i].id : i \in {j \in DOMAIN feed : feed[j].deleted}}

\* The rows of the external ids are the same rows, with the same fields
RowsUntouched(before, after, iiko_ids) ==
    \A x \in iiko_ids :
        /\ ByIikoId(after, x) = ByIikoId(before, x)
        /\ \A id \in ByIikoId(before, x) : after[id] = before[id]

C20_DeletedRecordsAreSkipped ==
    [][(sync.pc = "fetch_wait" /\ sync'.status = 200) =>
          /\ RowsUntouched(groups, groups', DeletedIds(sync'.resto_groups))
          /\ RowsUntouched(products, products', DeletedIds(sync'.resto_products))]_vars

\* A run has ended that wrote groups and products; its feed flagged deleted a
\* group and a product that have rows, and a group that has none.
C20_Witness ==
    /\ sync.pc = "done"
    /\ sync.status = 200
    /\ sync.synced_groups > 0
    /\ sync.synced_products > 0
    /\ \E x \in DeletedIds(sync.resto_groups) : ByIikoId(groups, x) # {}
    /\ \E x \in DeletedIds(sync.resto_products) : ByIikoId(products, x) # {}

(***************************************************************************)
(* C25: upserts of one external id are serialized.  Whenever a sync        *)
(* request resumes and answers, other requests awaiting their feed or      *)
(* not, every live product of its feed has exactly one row, that row       *)
(* holds the values this request wrote (its last organization and the      *)
(* group of its feed), no external id has two rows in products or groups,  *)
(* and the request answers 200.                                            *)
(***************************************************************************)
\* The group_id the feed of the latest request gives product p
WrittenGroupId(store, p) ==
    LET feed == lastCall.data.resto_groups
        listed == {feed[i].id : i \in {n \in DOMAIN feed : ~feed[n].deleted}}
    IN  IF p.parent # NoId /\ p.parent \in listed /\ ByIikoId(store, p.parent) # {}
        THEN CHOOSE g \in ByIikoId(store, p.parent) : TRUE
        ELSE NoId

\* The latest request was the last writer of the products of its feed
LastWriterHolds ==
    LET feed == lastCall.data.resto_products
        ids == lastCall.data.organization_ids
        org == CHOOSE o \in ByIikoId(organizations, ids[Len(ids)]) : TRUE
    IN  \A i \in DOMAIN feed :
           ~feed[i].deleted =>
               /\ Cardinality(ByIikoId(products, feed[i].id)) = 1
               /\ \A id \in ByIikoId(products, feed[i].id) :
                      /\ products[id].organization_id = org
                      /\ products[id].group_id = WrittenGroupId(groups, feed[i])

OneRowPerExternalId(table) ==
    \A a, b \in DOMAIN table : table[a].iiko_id = table[b].iiko_id => a = b

C25_UpsertsOfOneExternalIdAreSerialized ==
    [][\A t \in Tasks :
          (task[t].pc = "fetch_wait" /\ task[t].kind = "sync_products"
           /\ task'[t].pc = "idle" /\ lastCall' # lastCall)
              => /\ task'[t].returned = "200"
                 /\ LastWriterHolds'
                 /\ OneRowPerExternalId(products')
                 /\ OneRowPerExternalId(groups')]_vars

\* A request has written a product that the request before it had created
\* while this one was awaiting its feed
C25_Witness ==
    /\ lastCall.op = "sync_products"
    /\ lastCall.repeated
    /\ LastWriterHolds

\* The tables of the answered feed that sync_sections can store: live, with
\* an id, in a section whose terminal group the response listed under a
\* known organization
StorableTables ==
    LET response == lastCall.data.terminal_groups_response
        feed == lastCall.data.restaurant_sections
        known == {r \in DOMAIN response :
                     ByIikoId(organizations, response[r].organizationId) # {}}
        listed == UNION {{response[r].items[k] : k \in DOMAIN response[r].items} :
                         r \in known}
        mapped == {i \in DOMAIN feed : feed[i].terminalGroupId \in listed}
        live(i) == {j \in DOMAIN feed[i].tables :
                       /\ ~feed[i].tables[j].isDeleted
                       /\ feed[i].tables[j].id # NoId}
    IN  UNION {{feed[i].tables[j].id : j \in live(i)} : i \in mapped}

\* C26: a record that fails never aborts the batch: once sync_sections has
\* answered with its report, every other record of the feed was processed,
\* so every storable table of the feed has its section row.
C26_FailingRecordNeverAbortsTheBatch ==
    (lastCall.op = "sync_sections" /\ lastCall.ret.status = 200)
        => \A iiko_id \in StorableTables : ByIikoId(sections, iiko_id) # {}

(***************************************************************************)
(* C21: the parent links of the groups table form a forest: following the  *)
(* parents from any group ends at a group without parent, no group being   *)
(* met twice.                                                              *)
(***************************************************************************)
\* Following parent_group_id from id ends at NoId within fuel steps
RECURSIVE EndsAtRoot(_, _, _)
EndsAtRoot(table, id, fuel) ==
    \/ id = NoId
    \/ /\ fuel > 0
       /\ id \in DOMAIN table
       /\ EndsAtRoot(table, table[id].parent_group_id, fuel - 1)

C21_ParentLinksFormAForest ==
    \A id \in DOMAIN groups : EndsAtRoot(groups, id, Cardinality(DOMAIN groups))

(***************************************************************************)
(* C22: every group that has a parent has one that is a row of the groups  *)
(* table and belongs to the organization of the child.                     *)
(***************************************************************************)
C22_ParentIsOfTheSameOrganization ==
    \A id \in DOMAIN groups :
        groups[id].parent_group_id # NoId =>
            /\ groups[id].parent_group_id \in DOMAIN groups
            /\ groups[groups[id].parent_group_id].organization_id
                   = groups[id].organization_id

(***************************************************************************)
(* C23: a sync run changes no group and no product owned by an             *)
(* organization that the run does not process: each such row is there      *)
(* after the run with every field as before, its organization included.    *)
(***************************************************************************)
\* The organizations that the request in progress reconciles
ProcessedOrganizations ==
    {o \in DOMAIN organizations :
        \E i \in DOMAIN sync.organization_ids :
            organizations[o].iiko_id = sync.organization_ids[i]}

RowsOfOthersKept(before, after) ==
    \A id \in DOMAIN before :
        before[id].organization_id \notin ProcessedOrganizations =>
            (id \in DOMAIN after /\ after[id] = before[id])

C23_SyncTouchesOnlyItsOrganization ==
    [][(sync.pc = "fetch_wait" /\ sync'.status = 200) =>
          /\ RowsOfOthersKept(groups, groups')
          /\ RowsOfOthersKept(products, products')]_vars

(***************************************************************************)
(* C27: after a sync run that processed an organization, every live group  *)
(* of the feed whose parent is a live root of the feed is stored, and its  *)
(* parent link is the id of the row stored for that root, wherever the     *)
(* child stands in the feed: before its root or after it.                  *)
(***************************************************************************)
\* The positions of the live children of live roots of the feed
ChildrenOfRoots(feed) ==
    {i \in DOMAIN feed :
        /\ ~feed[i].deleted
        /\ \E j \in DOMAIN feed :
              /\ feed[j].id = feed[i].parent
              /\ feed[j].parent = NoId
              /\ ~feed[j].deleted}

C27_ChildIsLinkedToItsRoot ==
    [][(/\ sync.pc = "fetch_wait"
        /\ sync'.status = 200
        /\ KnownOrganization(sync.organization_ids)) =>
          \A i \in ChildrenOfRoots(sync'.resto_groups) :
              LET g == sync'.resto_groups[i]
              IN  /\ ByIikoId(groups', g.id) # {}
                  /\ ByIikoId(groups', g.parent) # {}
                  /\ \A c \in ByIikoId(groups', g.id) :
                        groups'[c].parent_group_id \in ByIikoId(groups', g.parent)]_vars

\* The feed listed g2, child of g1, and then the root g1, and the store had
\* no group: both are stored and g2's parent is g1's row.
C27_Witness ==
    /\ sync.pc = "done"
    /\ sync.status = 200
    /\ sync.resto_groups = <<[id |-> 2, parent |-> 1, deleted |-> FALSE],
                             [id |-> 1, parent |-> NoId, deleted |-> FALSE]>>
    /\ Cardinality(DOMAIN groups) = 2
    /\ \E c \in ByIikoId(groups, 2) : groups[c].parent_group_id \in ByIikoId(groups, 1)

(***************************************************************************)
(* C28: a sync run deletes no group and no product and deactivates none:   *)
(* every row is there after the run, an active row is still active, and a  *)
(* row whose external id the feed does not list has its activity flag as   *)
(* before.                                                                 *)
(***************************************************************************)
NothingRemovedOrDeactivated(before, after, feed) ==
    \A id \in DOMAIN before :
        /\ id \in DOMAIN after
        /\ before[id].is_active => after[id].is_active
        /\ before[id].iiko_id \notin FeedIds(feed) =>
              after[id].is_active = before[id].is_active

C28_SyncNeverDeletesOrDeactivates ==
    [][(sync.pc = "fetch_wait" /\ sync'.status = 200) =>
          /\ NothingRemovedOrDeactivated(groups, groups', sync'.resto_groups)
          /\ NothingRemovedOrDeactivated(products, products', sync'.resto_products)]_vars

\* A run that upserted groups and products has ended, and an active group
\* and an active product that its feed did not list are still there.
C28_Witness ==
    /\ sync.pc = "done"
    /\ sync.status = 200
    /\ sync.synced_groups > 0
    /\ sync.synced_products > 0
    /\ \E id \in DOMAIN groups :
          groups[id].iiko_id \notin FeedIds(sync.resto_groups) /\ groups[id].is_active
    /\ \E id \in DOMAIN products :
          products[id].iiko_id \notin FeedIds(sync.resto_products) /\ products[id].is_active

(***************************************************************************)
(* C7: after an upsert of a flat entity there is exactly one row with that *)
(* external id (and at most one row per external id in the table), every   *)
(* field the call supplied has the call's value, a non-empty incoming      *)
(* images list included, and the rows of other external ids are untouched. *)
(***************************************************************************)
UpsertOps == {"upsert_organization", "upsert_terminal_group", "upsert_section",
              "upsert_product"}

TableOf(op, orgs, tgs, secs, prods) ==
    CASE op = "upsert_organization" -> orgs
      [] op = "upsert_terminal_group" -> tgs
      [] op = "upsert_section" -> secs
      [] OTHER -> prods

UpsertPost(op, data, before, after) ==
    /\ \A x \in ExtIds : Cardinality(ByIikoId(after, x)) <= 1
    /\ Cardinality(ByIikoId(after, data.iiko_id)) = 1
    /\ \A id \in ByIikoId(after, data.iiko_id) :
          \A f \in DOMAIN data :
              \/ after[id][f] = data[f]
              \/ op = "upsert_product" /\ f = "images" /\ data[f] = <<>>
    /\ \A id \in DOMAIN before :
          before[id].iiko_id # data.iiko_id => id \in DOMAIN after /\ after[id] = before[id]

C7_UpsertKeepsOneRowWithLatestFields ==
    [][(calls' = calls + 1 /\ lastCall'.op \in UpsertOps) =>
          UpsertPost(lastCall'.op, lastCall'.data,
                     TableOf(lastCall'.op, organizations, terminal_groups, sections, products),
                     TableOf(lastCall'.op, organizations', terminal_groups', sections',
                             products'))]_vars

\* The terminal group of the initial store has been upserted again with another
\* name, and a second one created beside it.
C7_Witness ==
    /\ lastCall.op = "upsert_terminal_group"
    /\ lastCall.data.iiko_id = 1
    /\ lastCall.data.name = "n2"
    /\ Cardinality(DOMAIN terminal_groups) = 2
    /\ \A id \in ByIikoId(terminal_groups, 1) : terminal_groups[id].name = "n2"

(***************************************************************************)
(* C8: an upsert of an existing product with a non-empty images list keeps *)
(* that list when the incoming list is empty or absent, and still takes    *)
(* the other incoming fields; a non-empty incoming list replaces it.       *)
(***************************************************************************)
C8_EmptyImagesDoNotClobber ==
    [][(calls' = calls + 1 /\ lastCall'.op = "upsert_product") =>
          \A e \in ByIikoId(products, lastCall'.data.iiko_id) :
              LET data == lastCall'.data
                  incoming == IF "images" \in DOMAIN data THEN data.images ELSE <<>>
              IN  /\ (incoming = <<>> /\ products[e].images # <<>>) =>
                        /\ products'[e].images = products[e].images
                        /\ \A f \in DOMAIN data \ {"images"} : products'[e][f] = data[f]
                  /\ incoming # <<>> => products'[e].images = incoming]_vars

\* The latest call brought an empty list and another name; the row holds the
\* new name and still has images.
C8_Witness ==
    /\ lastCall.op = "upsert_product"
    /\ "images" \in DOMAIN lastCall.data
    /\ lastCall.data.images = <<>>
    /\ lastCall.data.name = "n2"
    /\ \E id \in ByIikoId(products, lastCall.data.iiko_id) :
          /\ products[id].images # <<>>
          /\ products[id].name = "n2"

(***************************************************************************)
(* C9: mark_missing_products_inactive(org, idsPresent) makes inactive the  *)
(* products of org whose external id is not in idsPresent and changes      *)
(* nothing else: the listed products and those of other organizations keep *)
(* their activity flag, and no row is added or removed.                    *)
(***************************************************************************)
C9_MarkMissingIsSetDifference ==
    [][(calls' = calls + 1 /\ lastCall'.op = "mark_missing_products_inactive") =>
          /\ DOMAIN products' = DOMAIN products
          /\ \A id \in DOMAIN products :
                products'[id] =
                    IF /\ products[id].organization_id = lastCall'.org
                       /\ products[id].iiko_id \notin lastCall'.ids
                    THEN [products[id] EXCEPT !.is_active = FALSE]
                    ELSE products[id]]_vars

\* The call deactivated a product of the organization and left a listed one active.
C9_Witness ==
    /\ lastCall.op = "mark_missing_products_inactive"
    /\ lastCall.ret = 1
    /\ \E p, q \in DOMAIN products :
          /\ products[p].organization_id = lastCall.org
          /\ products[p].iiko_id \notin lastCall.ids
          /\ ~products[p].is_active
          /\ products[q].organization_id = lastCall.org
          /\ products[q].iiko_id \in lastCall.ids
          /\ products[q].is_active

(***************************************************************************)
(* C10: mark_missing_products_inactive called again right after a call     *)
(* with the same organization and the same ids changes no product and      *)
(* deactivates none (it returns 0).                                        *)
(***************************************************************************)
C10_MarkMissingIsIdempotent ==
    [][(calls' = calls + 1 /\ lastCall'.op = "mark_missing_products_inactive"
            /\ lastCall'.repeated) =>
          /\ products' = products
          /\ lastCall'.ret = 0]_vars

\* The second of two equal calls has run, and a product of the organization is
\* inactive because it is not listed.
C10_Witness ==
    /\ lastCall.op = "mark_missing_products_inactive"
    /\ lastCall.repeated
    /\ \E p \in DOMAIN products :
          /\ products[p].organization_id = lastCall.org
          /\ products[p].iiko_id \notin lastCall.ids
          /\ ~products[p].is_active

====
